---------------------------- MODULE Spec2Model ----------------------------
(***************************************************************************)
(* Verification model of the statistics core of voynich-decoder:           *)
(*   - compare/compare_corpora.py, compare/compare_languages.py            *)
(*     (divergence engine, corpus comparator)                              *)
(*   - analysis/temporal_evolution.py (windowed analyzer)                  *)
(*   - analysis/report_metrics.py, analytics/stats.py (metrics, readers)   *)
(*                                                                         *)
(* Numbers.  Python floats are modelled as exact rationals <<n, d>>        *)
(* (d > 0); math.log2 / np.log2 are modelled by Log2Fix, a fixed-point     *)
(* logarithm with resolution 2^-FracBits.  A value that carries a          *)
(* logarithm is a pair <<n, d>> denoting n / (d * FixOne).                 *)
(* Optional values: None is <<>>, a present value x is <<x>>.              *)
(***************************************************************************)
EXTENDS Integers, Sequences, FiniteSets, TLC

\* ------------------------------------------------------------------ bounds
\* Largest count of one symbol in a frequency table drawn as an input.
MaxCount == 2

\* Symbols of the frequency tables drawn as inputs.
Keys == {"a", "b", "c"}

\* ------------------------------------------------------- integer helpers
RECURSIVE Pow2(_)
Pow2(n) == IF n <= 0 THEN 1 ELSE 2 * Pow2(n - 1)

RECURSIVE GCD(_, _)
GCD(a, b) == IF b = 0 THEN a ELSE GCD(b, a % b)

Abs(x) == IF x < 0 THEN -x ELSE x

None == <<>>

Some(x) == <<x>>

\* ------------------------------------------------------------- rationals
RReduce(r) ==
    IF r[1] = 0 THEN <<0, 1>>
    ELSE LET g == GCD(Abs(r[1]), r[2]) IN <<r[1] \div g, r[2] \div g>>

RAdd(r, s) == RReduce(<<r[1] * s[2] + s[1] * r[2], r[2] * s[2]>>)

RHalf(r) == RReduce(<<r[1], 2 * r[2]>>)

RLess(r, s) == r[1] * s[2] < s[1] * r[2]

RZero == <<0, 1>>

RECURSIVE SumOver(_, _)
\* Exact sum of the rationals f[k], k in dom.  The sum is exact, so the
\* order in which a dict or a set is iterated does not change it.
SumOver(f, dom) ==
    IF dom = {} THEN RZero
    ELSE LET k == CHOOSE x \in dom : TRUE
         IN RAdd(f[k], SumOver(f, dom \ {k}))

RECURSIVE IntSum(_, _)
IntSum(f, dom) ==
    IF dom = {} THEN 0
    ELSE LET k == CHOOSE x \in dom : TRUE
         IN f[k] + IntSum(f, dom \ {k})

\* ------------------------------------------------- fixed-point logarithm
\* Fractional bits of a logarithm, and of the mantissa it is computed from.
FracBits == 12

MantBits == 14

FixOne == Pow2(FracBits)

MantOne == Pow2(MantBits)

RECURSIVE FloorExp(_, _)
\* Largest e >= 0 with b * 2^e <= a, for a >= b > 0.
FloorExp(a, b) == IF 2 * b <= a THEN 1 + FloorExp(a, 2 * b) ELSE 0

RECURSIVE CeilExp(_, _)
\* Smallest k >= 0 with a * 2^k >= b, for a, b > 0.
CeilExp(a, b) == IF a >= b THEN 0 ELSE 1 + CeilExp(2 * a, b)

RECURSIVE FracLog(_, _)
\* The first i fractional bits of log2(x / MantOne), MantOne <= x < 2 MantOne,
\* by repeated squaring.
FracLog(x, i) ==
    IF i = 0 THEN 0
    ELSE LET y == (x * x) \div MantOne
         IN IF y >= 2 * MantOne
            THEN Pow2(i - 1) + FracLog(y \div 2, i - 1)
            ELSE FracLog(y, i - 1)

\* log2(a / b) in units of 2^-FracBits, for integers a, b > 0.
\* Log2Fix(a, a) = 0 and Log2Fix(2 a, a) = FixOne exactly, as math.log2(1.0)
\* is 0.0 and math.log2(2.0) is 1.0.
Log2Fix(a0, b0) ==
    LET g == GCD(a0, b0)
        a == a0 \div g
        b == b0 \div g
    IN IF a >= b
       THEN LET e == FloorExp(a, b)
            IN e * FixOne + FracLog((a * MantOne) \div (b * Pow2(e)), FracBits)
       ELSE LET k == CeilExp(a, b)
            IN FracLog((a * Pow2(k) * MantOne) \div b, FracBits) - k * FixOne

\* log2(1 / 1e-12) = 12 * log2(10) = 39.8631..., in units of 2^-FracBits.
Log2InvEpsilon == (398631 * FixOne) \div 10000

\* ------------------------------------------------------------ dict helpers
\* dict.get(k, 0.0) on a probability dict.
Get(p, k) == IF k \in DOMAIN p THEN p[k] ELSE RZero

\* All frequency tables (collections.Counter) over Keys with counts in
\* 1..MaxCount; a key of count 0 is never stored.
Counters == UNION {[D -> 1..MaxCount] : D \in SUBSET Keys}

Total(counter) == IntSum(counter, DOMAIN counter)


\* ------------------------------------------------------ divergence engine
EmptyDict == [k \in {} |-> RZero]

\* counter_to_prob with every count divided by the number of keys.
counter_to_prob_over_keys(counter) ==
    LET total == Total(counter)
    IN IF total = 0 THEN EmptyDict
       ELSE [k \in DOMAIN counter |-> <<counter[k], Cardinality(DOMAIN counter)>>]

\* compare_corpora.counter_to_prob: {} for an empty table, else k -> v/total.
counter_to_prob(counter) ==
    LET total == Total(counter)
    IN IF total = 0 THEN EmptyDict
       ELSE [k \in DOMAIN counter |-> <<counter[k], total>>]

\* compare_languages.normalize_counter: the pair (distribution, total).
normalize_counter(c) ==
    LET total == Total(c)
    IN IF total = 0 THEN <<EmptyDict, total>>
       ELSE <<[k \in DOMAIN c |-> <<c[k], total>>], total>>

\* v * log2(v / bv) for rationals v, bv > 0, as <<n, d>> = n / (d * FixOne).
VLogRatio(v, bv) == <<v[1] * Log2Fix(v[1] * bv[2], v[2] * bv[1]), v[2]>>

\* Mutant of corpora_mixture: the factor 0.5 of the mixture is dropped.
corpora_mixture_no_half(p, q) ==
    [k \in (DOMAIN p) \cup (DOMAIN q) |-> RAdd(Get(p, k), Get(q, k))]

\* compare_corpora.js_divergence, m: the mixture over the union of the keys.
corpora_mixture(p, q) ==
    [k \in (DOMAIN p) \cup (DOMAIN q) |-> RHalf(RAdd(Get(p, k), Get(q, k)))]

\* compare_corpora.js_divergence, one term of the inner kl(a, b): a zero v is
\* skipped, a zero bv is replaced by the epsilon 1e-12.
corpora_kl_term(v, bv) ==
    IF v[1] = 0 THEN RZero
    ELSE IF bv[1] = 0
         THEN <<v[1] * (Log2Fix(v[1], v[2]) + Log2InvEpsilon), v[2]>>
         ELSE VLogRatio(v, bv)

\* compare_corpora.js_divergence, the inner kl(a, b).
corpora_kl(a, b) ==
    SumOver([k \in DOMAIN a |-> corpora_kl_term(a[k], Get(b, k))], DOMAIN a)

\* Mutant of compare_corpora_js_divergence: the second term is kl(m, q)
\* instead of kl(q, m).
corpora_js_divergence_kl_swapped(p, q) ==
    LET m == corpora_mixture(p, q)
    IN RHalf(RAdd(corpora_kl(p, m), corpora_kl(m, q)))

\* compare_corpora_js_divergence with an empty distribution taken to be at
\* the largest distance, 1, from everything.
corpora_js_divergence_empty_is_far(p, q) ==
    LET m == corpora_mixture(p, q)
    IN IF p = EmptyDict \/ q = EmptyDict THEN <<FixOne, 1>>
       ELSE RHalf(RAdd(corpora_kl(p, m), corpora_kl(q, m)))

compare_corpora_js_divergence(p, q) ==
    LET m == corpora_mixture(p, q)
    IN RHalf(RAdd(corpora_kl(p, m), corpora_kl(q, m)))

\* compare_languages.js_divergence, the inner kl(a, b) on the vectors over
\* keys: only the entries with a > 0 are summed (mask).  b is the mixture,
\* so b[k] > 0 wherever a[k] > 0 and the quotient is finite.
languages_kl(a, b) ==
    LET mask == {k \in DOMAIN a : a[k][1] > 0}
    IN SumOver([k \in mask |-> VLogRatio(a[k], b[k])], mask)

\* Mutant of compare_languages_js_divergence: the final factor 0.5 is dropped.
languages_js_divergence_no_half(p, q) ==
    LET keys == (DOMAIN p) \cup (DOMAIN q)
        p_vec == [k \in keys |-> Get(p, k)]
        q_vec == [k \in keys |-> Get(q, k)]
        m == [k \in keys |-> RHalf(RAdd(p_vec[k], q_vec[k]))]
    IN RAdd(languages_kl(p_vec, m), languages_kl(q_vec, m))

compare_languages_js_divergence(p, q) ==
    LET keys == (DOMAIN p) \cup (DOMAIN q)
        p_vec == [k \in keys |-> Get(p, k)]
        q_vec == [k \in keys |-> Get(q, k)]
        m == [k \in keys |-> RHalf(RAdd(p_vec[k], q_vec[k]))]
    IN RHalf(RAdd(languages_kl(p_vec, m), languages_kl(q_vec, m)))

\* Readings of a divergence value j = <<n, d>> (n / (d * FixOne)).
JsdIsZero(j) == j[1] = 0

JsdInUnitInterval(j) == 0 <= j[1] /\ j[1] <= j[2] * FixOne

JsdIsOne(j) == j[1] = j[2] * FixOne

JsdLess(i, j) == i[1] * j[2] < j[1] * i[2]

\* ------------------------------------------------------- sequence helpers
Range(seq) == {seq[i] : i \in 1..Len(seq)}

\* Python's seq[start:stop] (also DataFrame.iloc[start:stop]): a negative
\* index counts from the end, and both ends are clipped to the sequence.
PySliceIndex(x, n) ==
    IF x < 0 THEN (IF x + n < 0 THEN 0 ELSE x + n)
    ELSE (IF x > n THEN n ELSE x)

PySlice(seq, start, stop) ==
    LET s == PySliceIndex(start, Len(seq))
        e == PySliceIndex(stop, Len(seq))
    IN IF s < e THEN SubSeq(seq, s + 1, e) ELSE <<>>

RECURSIVE Flatten(_)
\* list.extend over a sequence of lists.
Flatten(seqs) ==
    IF seqs = <<>> THEN <<>> ELSE Head(seqs) \o Flatten(Tail(seqs))

RECURSIVE Unique(_)
\* pandas Series.unique(): the distinct values in order of first appearance.
Unique(seq) ==
    IF seq = <<>> THEN <<>>
    ELSE LET rest == Unique(SubSeq(seq, 1, Len(seq) - 1))
             x == seq[Len(seq)]
         IN IF x \in Range(rest) THEN rest ELSE Append(rest, x)

Count(seq, x) == Cardinality({i \in 1..Len(seq) : seq[i] = x})

\* collections.Counter(seq): only the symbols that occur, each count >= 1.
CounterOf(seq) == [k \in Range(seq) |-> Count(seq, k)]

FirstIndex(seq, x) == CHOOSE i \in 1..Len(seq) : seq[i] = x /\ \A j \in 1..(i - 1) : seq[j] # x

\* Counter(seq).most_common(1)[0][0]: the highest count, and among equal
\* counts the symbol seen first.
MostCommon(seq) ==
    CHOOSE k \in Range(seq) :
        \A l \in Range(seq) :
            \/ Count(seq, l) < Count(seq, k)
            \/ Count(seq, l) = Count(seq, k) /\ FirstIndex(seq, k) <= FirstIndex(seq, l)

\* ------------------------------------------------------ temporal analyzer
Digits == {"0", "1", "2", "3", "4", "5", "6", "7", "8", "9"}

DigitVal ==
    [c \in Digits |->
        CASE c = "0" -> 0 [] c = "1" -> 1 [] c = "2" -> 2 [] c = "3" -> 3
          [] c = "4" -> 4 [] c = "5" -> 5 [] c = "6" -> 6 [] c = "7" -> 7
          [] c = "8" -> 8 [] c = "9" -> 9]

RECURSIVE LeadingDigits(_)
\* Number of digits the greedy \d+ consumes at the start of s.
LeadingDigits(s) ==
    IF s # <<>> /\ Head(s) \in Digits THEN 1 + LeadingDigits(Tail(s)) ELSE 0

RECURSIVE IntOf(_)
\* int() of a string of digits.
IntOf(ds) ==
    IF ds = <<>> THEN 0
    ELSE 10 * IntOf(SubSeq(ds, 1, Len(ds) - 1)) + DigitVal[ds[Len(ds)]]

\* extract_folio_order with the verso placed before the recto.
extract_folio_order_verso_first(folio) ==
    LET n == LeadingDigits(folio)
    IN IF n >= 1 /\ Len(folio) > n /\ folio[n + 1] \in {"r", "v"}
       THEN LET num == IntOf(SubSeq(folio, 1, n))
                side == folio[n + 1]
            IN <<num * 2 + (IF side = "r" THEN 1 ELSE 0), side>>
       ELSE <<0, "r">>

\* TemporalAnalyzer.extract_folio_order: re.match(r'(\d+)([rv])', folio), a
\* folio being a sequence of characters; <<order, side>>.
extract_folio_order(folio) ==
    LET n == LeadingDigits(folio)
    IN IF n >= 1 /\ Len(folio) > n /\ folio[n + 1] \in {"r", "v"}
       THEN LET num == IntOf(SubSeq(folio, 1, n))
                side == folio[n + 1]
            IN <<num * 2 + (IF side = "r" THEN 0 ELSE 1), side>>
       ELSE <<0, "r">>

FolioOrderKey(folio) == extract_folio_order(folio)[1]

RECURSIVE InsertFolio(_, _)
\* Insert x after every element whose order key is <= that of x (stable).
InsertFolio(sorted, x) ==
    IF sorted = <<>> THEN <<x>>
    ELSE IF FolioOrderKey(Head(sorted)) <= FolioOrderKey(x)
         THEN <<Head(sorted)>> \o InsertFolio(Tail(sorted), x)
         ELSE <<x>> \o sorted

RECURSIVE SortedFolios(_)
\* sorted(folios, key=lambda x: self.extract_folio_order(x)[0]): ascending
\* and stable.
SortedFolios(seq) ==
    IF seq = <<>> THEN <<>>
    ELSE InsertFolio(SortedFolios(SubSeq(seq, 1, Len(seq) - 1)), seq[Len(seq)])

\* TemporalAnalyzer.load_data: every non-blank line of the file is a row of
\* tokens_df; the print that follows reads the 'folio' column, which an
\* empty DataFrame does not have (KeyError).
load_data(file) ==
    [tokens_df |-> Some(file),
     error |-> IF file = <<>> THEN Some("KeyError") ELSE None]

\* One row of folio_stats, for the rows of tokens_df of one folio.
folio_stat(rows, folio) ==
    LET tokens_list == [i \in 1..Len(SelectSeq(rows, LAMBDA r : r.folio = folio)) |->
                           SelectSeq(rows, LAMBDA r : r.folio = folio)[i].token]
        token_counts == CounterOf(tokens_list)
        n == Len(tokens_list)
        uniq == Cardinality(DOMAIN token_counts)
    IN [folio |-> folio,
        order |-> extract_folio_order(folio)[1],
        side |-> extract_folio_order(folio)[2],
        token_count |-> n,
        unique_tokens |-> uniq,
        vocabulary_diversity |-> IF n > 0 THEN RReduce(<<uniq, n>>) ELSE RZero,
        most_common_token |-> IF n > 0 THEN Some(MostCommon(tokens_list)) ELSE None,
        most_common_freq |-> IF n > 0 THEN Count(tokens_list, MostCommon(tokens_list)) ELSE 0,
        repetition_rate |-> IF n > 0
                            THEN RReduce(<<Count(tokens_list, MostCommon(tokens_list)), n>>)
                            ELSE RZero,
        tokens |-> tokens_list]

\* TemporalAnalyzer.compute_folio_statistics on loaded rows: one row per
\* folio, the folios sorted by extract_folio_order(x)[0].
compute_folio_statistics(rows) ==
    LET folios == SortedFolios(Unique([i \in 1..Len(rows) |-> rows[i].folio]))
    IN [i \in 1..Len(folios) |-> folio_stat(rows, folios[i])]

\* ln(2) in units of 2^-FracBits.
Ln2Fix == (6931 * FixOne) \div 10000

\* Natural logarithm of a / b in units of 2^-FracBits (np.log in
\* scipy.special.rel_entr).
LnFix(a, b) == (Log2Fix(a, b) * Ln2Fix) \div FixOne

\* scipy.stats.entropy(pk, qk) for pk, qk that already sum to 1: the sum of
\* rel_entr(pk, qk) = pk * ln(pk / qk) over the entries with pk > 0.
scipy_entropy(pk, qk) ==
    LET pos == {k \in DOMAIN pk : pk[k][1] > 0}
    IN SumOver([k \in pos |->
                  <<pk[k][1] * LnFix(pk[k][1] * qk[k][2], pk[k][2] * qk[k][1]), pk[k][2]>>],
               pos)

\* detect_vocabulary_shifts, lines 187-201: the divergence of two non-empty
\* token lists.
window_jsd(tokens1, tokens2) ==
    LET counter1 == CounterOf(tokens1)
        counter2 == CounterOf(tokens2)
        all_tokens == (DOMAIN counter1) \cup (DOMAIN counter2)
        freq1 == [t \in all_tokens |->
                    <<IF t \in DOMAIN counter1 THEN counter1[t] ELSE 0, Len(tokens1)>>]
        freq2 == [t \in all_tokens |->
                    <<IF t \in DOMAIN counter2 THEN counter2[t] ELSE 0, Len(tokens2)>>]
        m == [t \in all_tokens |-> RHalf(RAdd(freq1[t], freq2[t]))]
    IN RAdd(RHalf(scipy_entropy(freq1, m)), RHalf(scipy_entropy(freq2, m)))

\* shift_record with the overlap divided by the size of the first
\* vocabulary instead of the union.
shift_record_overlap_over_first(stats, i, window_size) ==
    LET window1 == PySlice(stats, i, i + window_size)
        window2 == PySlice(stats, i + window_size, i + 2 * window_size)
        tokens1 == Flatten([j \in 1..Len(window1) |-> window1[j].tokens])
        tokens2 == Flatten([j \in 1..Len(window2) |-> window2[j].tokens])
        vocab1 == Range(tokens1)
        vocab2 == Range(tokens2)
        overlap == Cardinality(vocab1 \cap vocab2)
        union == Cardinality(vocab1 \cup vocab2)
    IN IF tokens1 = <<>> \/ tokens2 = <<>> THEN None
       ELSE Some([window_start |-> window1[1].folio,
                  window_end |-> window2[Len(window2)].folio,
                  jaccard_similarity |-> RReduce(<<overlap, Cardinality(vocab1)>>),
                  jsd_distance |-> window_jsd(tokens1, tokens2),
                  vocab_size_1 |-> Cardinality(vocab1),
                  vocab_size_2 |-> Cardinality(vocab2),
                  new_tokens |-> Cardinality(vocab2 \ vocab1),
                  disappeared_tokens |-> Cardinality(vocab1 \ vocab2)])

\* detect_vocabulary_shifts, the body of the loop for one i: None when the
\* iteration is skipped (continue), else the record appended to shifts.
shift_record(stats, i, window_size) ==
    LET window1 == PySlice(stats, i, i + window_size)
        window2 == PySlice(stats, i + window_size, i + 2 * window_size)
        tokens1 == Flatten([j \in 1..Len(window1) |-> window1[j].tokens])
        tokens2 == Flatten([j \in 1..Len(window2) |-> window2[j].tokens])
        vocab1 == Range(tokens1)
        vocab2 == Range(tokens2)
        overlap == Cardinality(vocab1 \cap vocab2)
        union == Cardinality(vocab1 \cup vocab2)
    IN IF tokens1 = <<>> \/ tokens2 = <<>> THEN None
       ELSE Some([window_start |-> window1[1].folio,
                  window_end |-> window2[Len(window2)].folio,
                  jaccard_similarity |-> IF union > 0 THEN RReduce(<<overlap, union>>) ELSE RZero,
                  jsd_distance |-> window_jsd(tokens1, tokens2),
                  vocab_size_1 |-> Cardinality(vocab1),
                  vocab_size_2 |-> Cardinality(vocab2),
                  new_tokens |-> Cardinality(vocab2 \ vocab1),
                  disappeared_tokens |-> Cardinality(vocab1 \ vocab2)])

RECURSIVE shifts_from_short_range(_, _, _)
\* Mutant of shifts_from: the loop runs over range(len - 2 * window_size).
shifts_from_short_range(stats, i, window_size) ==
    IF i >= Len(stats) - 2 * window_size THEN <<>>
    ELSE shift_record(stats, i, window_size)
           \o shifts_from_short_range(stats, i + 1, window_size)

RECURSIVE shifts_from(_, _, _)
\* The records of the iterations i, i+1, ... of
\* for i in range(len(self.folio_stats) - window_size).
shifts_from(stats, i, window_size) ==
    IF i >= Len(stats) - window_size THEN <<>>
    ELSE shift_record(stats, i, window_size) \o shifts_from(stats, i + 1, window_size)

\* TemporalAnalyzer.detect_vocabulary_shifts on computed folio statistics.
detect_vocabulary_shifts(stats, window_size) == shifts_from(stats, 0, window_size)

\* ------------------------------------------------ temporal analyzer inputs
\* Most folios in a token file drawn as an input.
MaxFolios == 4

\* Largest absolute window size passed to detect_vocabulary_shifts.
MaxWindow == 2

WindowSizes == (0 - MaxWindow)..MaxWindow

DigitChr == [d \in 0..9 |-> CHOOSE c \in Digits : DigitVal[c] = d]

\* The i-th folio in manuscript order: 1r, 1v, 2r, 2v, 3r, ...
FolioName(i) == <<DigitChr[(i + 1) \div 2], IF i % 2 = 1 THEN "r" ELSE "v">>

\* Token lists of one folio; a folio of the file has at least one token row.
TokenLists == {<<"a">>, <<"b">>, <<"a", "b">>}

\* The rows of a token file holding, in this order, the folios named by
\* order with the tokens toks[i] of the i-th.
FileRows(order, toks) ==
    Flatten([i \in 1..Len(order) |->
               [j \in 1..Len(toks[order[i]]) |->
                  [folio |-> FolioName(order[i]), token |-> toks[order[i]][j]]]])

\* Token files: n folios, written in manuscript order or in reverse.
TaFilesOf(n) ==
    UNION {{FileRows([i \in 1..n |-> i], toks), FileRows([i \in 1..n |-> n + 1 - i], toks)} :
             toks \in [1..n -> TokenLists]}

TaFiles == UNION {TaFilesOf(n) : n \in 0..MaxFolios}

\* ------------------------------------------------------------ zipf slope
RECURSIVE InsertDesc(_, _)
InsertDesc(sorted, x) ==
    IF sorted = <<>> THEN <<x>>
    ELSE IF Head(sorted) >= x
         THEN <<Head(sorted)>> \o InsertDesc(Tail(sorted), x)
         ELSE <<x>> \o sorted

RECURSIVE SortedValuesDesc(_, _)
\* sorted(counter.values(), reverse=True), over the keys in dom.
SortedValuesDesc(counter, dom) ==
    IF dom = {} THEN <<>>
    ELSE LET k == CHOOSE x \in dom : TRUE
         IN InsertDesc(SortedValuesDesc(counter, dom \ {k}), counter[k])

\* Ranks that enter the fit ("use top N points").
ZipfTopN == 1000

\* np.polyfit(x, y, 1)[0] for x = log10(rank), y = log10(freq): the least
\* squares slope (n Sxy - Sx Sy) / (n Sxx - Sx^2), a rational.  A quotient
\* of logarithms does not depend on their base.
polyfit_slope(vals) ==
    LET n == Len(vals)
        x == [i \in 1..n |-> Log2Fix(i, 1)]
        y == [i \in 1..n |-> Log2Fix(vals[i], 1)]
        Sx == IntSum(x, 1..n)
        Sy == IntSum(y, 1..n)
        Sxy == IntSum([i \in 1..n |-> x[i] * y[i]], 1..n)
        Sxx == IntSum([i \in 1..n |-> x[i] * x[i]], 1..n)
        den == n * Sxx - Sx * Sx
        num == n * Sxy - Sx * Sy
    IN IF den < 0 THEN RReduce(<<0 - num, 0 - den>>) ELSE RReduce(<<num, den>>)

\* report_metrics.zipf_slope: None, or the fitted slope.
zipf_slope(counter) ==
    LET freqs == SortedValuesDesc(counter, DOMAIN counter)
    IN IF Len(freqs) < 3 THEN None
       ELSE LET N == IF Len(freqs) < ZipfTopN THEN Len(freqs) ELSE ZipfTopN
            IN Some(polyfit_slope(SubSeq(freqs, 1, N)))

\* Symbols and largest count of the frequency tables zipf_slope is given.
ZipfKeys == {"a", "b", "c", "d"}

ZipfMaxCount == 3

ZipfCounters == UNION {[D -> 1..ZipfMaxCount] : D \in SUBSET ZipfKeys}

\* --------------------------------------------------------------- tokenizer
\* A text is a sequence of characters.  Characters of the model: lower-case
\* letters, upper-case letters, a digit, and two separators.
LowerLetters == {"a", "b", "c"}

\* The letters a-z of the class [a-z0-9].
AsciiLowerLetters ==
    {"a", "b", "c", "d", "e", "f", "g", "h", "i", "j", "k", "l", "m",
     "n", "o", "p", "q", "r", "s", "t", "u", "v", "w", "x", "y", "z"}

UpperLetters == {"A", "B"}

\* The two letters outside a-z that [a-z] matches under re.IGNORECASE and
\* str.lower() leaves alone: dotless i and long s.
IgnoreCaseLetters == {"U+0131", "U+017F"}

\* A lower-case letter outside a-z that the pattern does not match: e acute.
OtherLetters == {"U+00E9"}

Chars ==
    LowerLetters \cup UpperLetters \cup {"1", " ", "-"} \cup IgnoreCaseLetters \cup OtherLetters

\* str.lower() on one character.
LowerChar(c) == CASE c = "A" -> "a" [] c = "B" -> "b" [] OTHER -> c

\* A character of the lower-cased text that the class [a-z0-9] of TOKEN_RE,
\* compiled with re.IGNORECASE, matches.
TokenChar(c) == c \in AsciiLowerLetters \cup Digits \cup IgnoreCaseLetters

RECURSIVE TokenRuns(_, _)
\* TOKEN_RE.findall: the maximal runs of token characters, left to right;
\* cur is the run being read.
TokenRuns(text, cur) ==
    IF text = <<>> THEN (IF cur = <<>> THEN <<>> ELSE <<cur>>)
    ELSE IF TokenChar(Head(text))
         THEN TokenRuns(Tail(text), Append(cur, Head(text)))
         ELSE (IF cur = <<>> THEN <<>> ELSE <<cur>>) \o TokenRuns(Tail(text), <<>>)

\* tokenize(text) of compare_corpora, report_metrics and stats on a string:
\* [] for the empty string, else TOKEN_RE.findall(text.lower()).
tokenize(text) ==
    IF text = <<>> THEN <<>>
    ELSE TokenRuns([i \in 1..Len(text) |-> LowerChar(text[i])], <<>>)

RECURSIVE JoinSpace(_)
\* ' '.join(strings)
JoinSpace(strings) ==
    IF strings = <<>> THEN <<>>
    ELSE IF Len(strings) = 1 THEN strings[1]
         ELSE strings[1] \o <<" ">> \o JoinSpace(Tail(strings))

\* report_metrics.ngrams and stats.ngrams: [] for n <= 0.
ngrams(tokens, n) ==
    IF n <= 0 THEN <<>>
    ELSE [i \in 1..(IF Len(tokens) - n + 1 > 0 THEN Len(tokens) - n + 1 ELSE 0) |->
            PySlice(tokens, i - 1, i - 1 + n)]

\* compare_corpora.ngrams with the loop over range(len(tokens) - n).
compare_corpora_ngrams_one_short(tokens, n) ==
    [i \in 1..(IF Len(tokens) - n > 0 THEN Len(tokens) - n ELSE 0) |->
        PySlice(tokens, i - 1, i - 1 + n)]

\* compare_corpora.ngrams: no test of n.
compare_corpora_ngrams(tokens, n) ==
    [i \in 1..(IF Len(tokens) - n + 1 > 0 THEN Len(tokens) - n + 1 ELSE 0) |->
        PySlice(tokens, i - 1, i - 1 + n)]

\* shannon_entropy with the terms p * log2(p) added instead of subtracted.
shannon_entropy_sign_flipped(counter) ==
    LET total == Total(counter)
    IN IF total = 0 THEN RZero
       ELSE RReduce(SumOver([k \in DOMAIN counter |->
                               VLogRatio(<<counter[k], total>>, <<1, 1>>)],
                            DOMAIN counter))

\* shannon_entropy(counter) of report_metrics and stats: 0.0 for an empty
\* table, else -sum p log2 p, as <<n, d>> = n / (d * FixOne).
shannon_entropy(counter) ==
    LET total == Total(counter)
    IN IF total = 0 THEN RZero
       ELSE LET plogp == SumOver([k \in DOMAIN counter |->
                                    VLogRatio(<<counter[k], total>>, <<1, 1>>)],
                                 DOMAIN counter)
            IN RReduce(<<0 - plogp[1], plogp[2]>>)

\* ------------------------------------------------------------ JSONL input
\* A JSON value of a record field, as far as the readers tell values apart:
\* the field is absent, a string, a number (non-zero), or a list of strings.
JAbsent == [t |-> "absent", v |-> <<>>]

JNum == [t |-> "num", v |-> <<>>]

JStr(chars) == [t |-> "str", v |-> chars]

JList(strings) == [t |-> "list", v |-> strings]

\* A line of a JSONL file: blank, not JSON, JSON that is no object, or an
\* object with its text and tokens fields.
BlankLine == [kind |-> "blank", text |-> JAbsent, tokens |-> JAbsent]

InvalidLine == [kind |-> "invalid", text |-> JAbsent, tokens |-> JAbsent]

NonObjectLine == [kind |-> "nonobject", text |-> JAbsent, tokens |-> JAbsent]

ObjectLine(text, tokens) == [kind |-> "object", text |-> text, tokens |-> tokens]

TextValues == {JAbsent, JStr(<<>>), JStr(<<"A", "b", " ", "c">>), JNum}

TokensValues == {JAbsent, JList(<<<<"a">>, <<"b">>>>), JNum}

JsonLines ==
    {BlankLine, InvalidLine, NonObjectLine}
        \cup {ObjectLine(x, y) : x \in TextValues, y \in TokensValues}

\* Most lines in a JSONL file drawn as an input.
MaxLines == 2

RECURSIVE SeqsUpTo(_, _)
\* The sequences over S of length at most n.
SeqsUpTo(S, n) ==
    IF n = 0 THEN {<<>>}
    ELSE LET shorter == SeqsUpTo(S, n - 1)
         IN shorter \cup {Append(q, x) : q \in shorter, x \in S}

\* The file at a path: None when it does not exist, else Some(its lines).
JsonlFiles == {None} \cup {Some(f) : f \in SeqsUpTo(JsonLines, MaxLines)}

\* Python truth value of a field value.
Truthy(j) == j.t = "num" \/ (j.t \in {"str", "list"} /\ j.v # <<>>)

\* obj.get('text') or ' '.join(obj.get('tokens', [])) on an object: the text
\* value, or the exception str.join raises on a value that is no list.
text_or_joined_tokens(obj) ==
    IF Truthy(obj.text) THEN [value |-> obj.text, error |-> None]
    ELSE IF obj.tokens.t = "absent" THEN [value |-> JStr(<<>>), error |-> None]
         ELSE IF obj.tokens.t = "list"
              THEN [value |-> JStr(JoinSpace(obj.tokens.v)), error |-> None]
              ELSE [value |-> JAbsent, error |-> Some("TypeError")]

RECURSIVE report_read_loop(_, _)
\* report_metrics.read_lines_from_jsonl, the loop over the lines: a blank
\* line and a line json.loads rejects are skipped; obj.get on a value that
\* is no dict raises AttributeError outside the try.
report_read_loop(file_lines, lines) ==
    IF file_lines = <<>> THEN [lines |-> lines, error |-> None]
    ELSE LET ln == Head(file_lines)
             t == text_or_joined_tokens(ln)
         IN IF ln.kind \in {"blank", "invalid"} THEN report_read_loop(Tail(file_lines), lines)
            ELSE IF ln.kind = "nonobject"
                 THEN [lines |-> lines, error |-> Some("AttributeError")]
                 ELSE IF t.error # None THEN [lines |-> lines, error |-> t.error]
                      ELSE report_read_loop(Tail(file_lines),
                               IF Truthy(t.value) THEN Append(lines, t.value) ELSE lines)

\* report_metrics.read_lines_from_jsonl: [] when the path does not exist.
read_lines_from_jsonl(file) ==
    IF file = None THEN [lines |-> <<>>, error |-> None]
    ELSE report_read_loop(file[1], <<>>)

RECURSIVE voynich_read_loop(_, _)
\* compare_corpora.read_voynich_lines, the loop over the lines: json.loads
\* is not guarded.
voynich_read_loop(file_lines, lines) ==
    IF file_lines = <<>> THEN [lines |-> lines, error |-> None]
    ELSE LET ln == Head(file_lines)
             t == text_or_joined_tokens(ln)
         IN IF ln.kind = "blank" THEN voynich_read_loop(Tail(file_lines), lines)
            ELSE IF ln.kind = "invalid"
                 THEN [lines |-> lines, error |-> Some("JSONDecodeError")]
                 ELSE IF ln.kind = "nonobject"
                      THEN [lines |-> lines, error |-> Some("AttributeError")]
                      ELSE IF t.error # None THEN [lines |-> lines, error |-> t.error]
                           ELSE voynich_read_loop(Tail(file_lines),
                                    IF Truthy(t.value) THEN Append(lines, t.value)
                                    ELSE lines)

\* compare_corpora.read_voynich_lines: path.open raises on a missing file.
read_voynich_lines(file) ==
    IF file = None THEN [lines |-> <<>>, error |-> Some("FileNotFoundError")]
    ELSE voynich_read_loop(file[1], <<>>)

RECURSIVE stats_analyze_loop(_, _)
\* stats.analyze, the loop over read_jsonl(input_path); acc holds
\* total_lines and the tokens, bigrams and trigrams counted so far.
\* rec.get("text", "") is tokenized: a number has no lower().
stats_analyze_loop(file_lines, acc) ==
    IF file_lines = <<>> THEN [acc EXCEPT !.error = None]
    ELSE LET ln == Head(file_lines)
             text == IF ln.text.t = "absent" THEN JStr(<<>>) ELSE ln.text
             tokens == tokenize(text.v)
         IN IF ln.kind = "blank" THEN stats_analyze_loop(Tail(file_lines), acc)
            ELSE IF ln.kind = "invalid" THEN [acc EXCEPT !.error = Some("JSONDecodeError")]
                 ELSE IF ln.kind = "nonobject" \/ text.t \notin {"str"}
                      THEN [acc EXCEPT !.error = Some("AttributeError")]
                      ELSE stats_analyze_loop(Tail(file_lines),
                               [total_lines |-> acc.total_lines + 1,
                                total_tokens |-> acc.total_tokens + Len(tokens),
                                uni |-> acc.uni \o tokens,
                                bi |-> acc.bi \o ngrams(tokens, 2),
                                tri |-> acc.tri \o ngrams(tokens, 3),
                                error |-> None])

\* stats.analyze: the results dict, or the exception that ends the call.
stats_analyze(file) ==
    LET start == [total_lines |-> 0, total_tokens |-> 0, uni |-> <<>>, bi |-> <<>>,
                  tri |-> <<>>, error |-> None]
        acc == IF file = None THEN [start EXCEPT !.error = Some("FileNotFoundError")]
               ELSE stats_analyze_loop(file[1], start)
    IN IF acc.error # None
       THEN [lines |-> 0, tokens |-> 0, unigram_count |-> 0, unigram_entropy |-> RZero,
             unigrams |-> EmptyDict, bigrams |-> EmptyDict, trigrams |-> EmptyDict,
             error |-> acc.error]
       ELSE [lines |-> acc.total_lines,
             tokens |-> acc.total_tokens,
             unigram_count |-> Total(CounterOf(acc.uni)),
             unigram_entropy |-> shannon_entropy(CounterOf(acc.uni)),
             unigrams |-> CounterOf(acc.uni),
             bigrams |-> CounterOf(acc.bi),
             trigrams |-> CounterOf(acc.tri),
             error |-> None]

\* -------------------------------------------------- tokenizer entry points
\* The field value null.
JNull == [t |-> "null", v |-> <<>>]

\* tokenize(text) of stats, report_metrics and compare_corpora on a value
\* read from a record: [] when the value is falsy, else findall on
\* text.lower(), which only a string has.
tokenize_value(text) ==
    IF ~Truthy(text) THEN [tokens |-> <<>>, error |-> None]
    ELSE IF text.t = "str" THEN [tokens |-> tokenize(text.v), error |-> None]
         ELSE [tokens |-> <<>>, error |-> Some("AttributeError")]

\* ingest.tokenize.tokenize_jsonl on one record: text = rec.get("text", ""),
\* then TOKEN_RE.findall(text.lower()) with no test of text.
tokenize_jsonl_record(text) ==
    IF text.t = "absent" THEN [tokens |-> <<>>, error |-> None]
    ELSE IF text.t = "str"
         THEN [tokens |-> TokenRuns([i \in 1..Len(text.v) |-> LowerChar(text.v[i])], <<>>),
               error |-> None]
         ELSE [tokens |-> <<>>, error |-> Some("AttributeError")]

\* Longest text drawn as an input of the tokenizers.
MaxTextLen == 3

TkTexts == {JNull} \cup {JStr(t) : t \in SeqsUpTo(Chars, MaxTextLen)}

\* ------------------------------------------------------------- compare()
RECURSIVE most_common(_, _)
\* Counter(seq).most_common(n): (symbol, count) pairs by falling count,
\* equal counts in the order the symbols were first seen.
most_common(seq, n) ==
    IF n <= 0 \/ seq = <<>> THEN <<>>
    ELSE LET k == MostCommon(seq)
         IN <<<<k, Count(seq, k)>>>> \o most_common(SelectSeq(seq, LAMBDA x : x # k), n - 1)

\* n of the top_items calls in compare().
TopItems == 40

\* top_items(Counter(seq), n)
top_items(seq, n) == most_common(seq, n)

\* str.splitlines() as far as compare() uses it: whether there is a line.
splitlines(text) == IF text = <<>> THEN <<>> ELSE <<text>>

\* embed_similarity without the guarded import: a similarity whenever both
\* lists of texts are non-empty.
embed_similarity_import_unguarded(v_texts, c_texts, importable) ==
    IF v_texts = <<>> \/ c_texts = <<>> THEN None ELSE Some("mean_sim")

\* embed_similarity: None when sentence_transformers cannot be imported or
\* either list of texts is empty, else the mean cosine similarity (a float
\* the model leaves opaque).
embed_similarity(v_texts, c_texts, importable) ==
    IF ~importable THEN None
    ELSE IF v_texts = <<>> \/ c_texts = <<>> THEN None
         ELSE Some("mean_sim")

\* The bigram keys of compare(): ' '.join(ng) for ng in ngrams(tokens, 2).
bigram_keys(tokens) ==
    LET ngs == compare_corpora_ngrams(tokens, 2)
    IN [i \in 1..Len(ngs) |-> JoinSpace(ngs[i])]

\* Body of the loop over the corpus files for one file; name is its
\* position in sorted(corpora_dir.iterdir()).
corpus_detail(name, text, v_lines, p_v_uni, p_v_bi, importable) ==
    LET c_tokens == tokenize(text)
        c_bi == bigram_keys(c_tokens)
    IN [corpus |-> name,
        jsd_unigram |-> compare_corpora_js_divergence(p_v_uni, counter_to_prob(CounterOf(c_tokens))),
        jsd_bigram |-> compare_corpora_js_divergence(p_v_bi, counter_to_prob(CounterOf(c_bi))),
        embedding_similarity |-> embed_similarity(v_lines, splitlines(text), importable),
        top_unigrams |-> top_items(c_tokens, TopItems),
        top_bigrams |-> top_items(c_bi, TopItems)]

RECURSIVE compare_results_skip_empty(_, _, _, _, _, _)
\* The loop with a corpus without tokens left out of the results.
compare_results_skip_empty(entries, i, v_lines, p_v_uni, p_v_bi, importable) ==
    IF i > Len(entries) THEN <<>>
    ELSE (IF entries[i].is_file /\ tokenize(entries[i].text) # <<>>
          THEN <<corpus_detail(i, entries[i].text, v_lines, p_v_uni, p_v_bi, importable)>>
          ELSE <<>>)
         \o compare_results_skip_empty(entries, i + 1, v_lines, p_v_uni, p_v_bi, importable)

RECURSIVE compare_results(_, _, _, _, _, _)
\* for corpus_file in sorted(corpora_dir.iterdir()): an entry that is no
\* file is passed over, every file appends its detail to results.
compare_results(entries, i, v_lines, p_v_uni, p_v_bi, importable) ==
    IF i > Len(entries) THEN <<>>
    ELSE (IF entries[i].is_file
          THEN <<corpus_detail(i, entries[i].text, v_lines, p_v_uni, p_v_bi, importable)>>
          ELSE <<>>)
         \o compare_results(entries, i + 1, v_lines, p_v_uni, p_v_bi, importable)

\* A row of summary.csv and summary.md.
summary_row(r) ==
    [corpus |-> r.corpus, jsd_unigram |-> r.jsd_unigram, jsd_bigram |-> r.jsd_bigram,
     embedding_similarity |-> r.embedding_similarity]

RECURSIVE InsertByJsd(_, _)
\* r placed behind every row whose jsd_unigram is not greater (sorted() is
\* stable).
InsertByJsd(rows, r) ==
    IF rows = <<>> THEN <<r>>
    ELSE IF JsdLess(r.jsd_unigram, Head(rows).jsd_unigram) THEN <<r>> \o rows
         ELSE <<Head(rows)>> \o InsertByJsd(Tail(rows), r)

RECURSIVE sorted_by_jsd_unigram(_)
\* sorted(results, key=lambda x: x['jsd_unigram'])
sorted_by_jsd_unigram(results) ==
    IF results = <<>> THEN <<>>
    ELSE InsertByJsd(sorted_by_jsd_unigram(SubSeq(results, 1, Len(results) - 1)),
                     results[Len(results)])

\* The rows of summary.csv: results in the order of the loop.
summary_csv_rows(results) == [i \in 1..Len(results) |-> summary_row(results[i])]

\* The rows of summary.md written in the order of results.
summary_md_rows_unsorted(results) == [i \in 1..Len(results) |-> summary_row(results[i])]

\* The rows of summary.md: results sorted by jsd_unigram ascending.
summary_md_rows(results) ==
    LET ranked == sorted_by_jsd_unigram(results)
    IN [i \in 1..Len(ranked) |-> summary_row(ranked[i])]

\* What compare() leaves behind when an exception ends it before the loop.
compare_failed(error) == [error |-> Some(error), results |-> <<>>, csv |-> <<>>, md |-> <<>>]

\* compare(voynich_path, corpora_dir, out_dir): the details, the rows of
\* summary.csv and summary.md, or the exception that ends the call.
compare(voynich_file, entries, importable) ==
    LET read == read_voynich_lines(voynich_file)
        v_lines == read.lines
        bad == {i \in 1..Len(v_lines) : v_lines[i].t # "str"}
        v_tokens == Flatten([i \in 1..Len(v_lines) |-> tokenize(v_lines[i].v)])
        p_v_uni == counter_to_prob(CounterOf(v_tokens))
        p_v_bi == counter_to_prob(CounterOf(bigram_keys(v_tokens)))
        results == compare_results(entries, 1, v_lines, p_v_uni, p_v_bi, importable)
    IN IF read.error # None THEN compare_failed(read.error[1])
       ELSE IF bad # {} THEN compare_failed("AttributeError")
            ELSE [error |-> None,
                  results |-> results,
                  csv |-> summary_csv_rows(results),
                  md |-> summary_md_rows(results)]

\* Inputs of compare(): the lines a manuscript file is made of, the texts
\* of the corpus files, and the entries of the corpora directory.
CmpLines ==
    {InvalidLine,
     ObjectLine(JStr(<<"A", "b", " ", "c">>), JAbsent),
     ObjectLine(JAbsent, JList(<<<<"a">>, <<"b">>>>))}

CmpVoynichFiles == {Some(f) : f \in SeqsUpTo(CmpLines, MaxLines)}

CorpusTexts == {<<>>, <<"-">>, <<"a", " ", "b">>, <<"b", " ", "b", " ", "c">>}

CorpusEntries ==
    {[is_file |-> FALSE, text |-> <<>>]} \cup {[is_file |-> TRUE, text |-> t] : t \in CorpusTexts}

\* Most entries in the corpora directory.
MaxCorpora == 3

CorporaDirs == SeqsUpTo(CorpusEntries, MaxCorpora)

\* ----------------------------------------------------------------- ngrams
\* Inputs of ngrams: token sequences of at most MaxTokens tokens, orders
\* from -MaxOrder to MaxOrder.
NgTokens == {<<"a">>, <<"b">>}

MaxTokens == 3

MaxOrder == 3

NgSequences == SeqsUpTo(NgTokens, MaxTokens)

NgOrders == (0 - MaxOrder)..MaxOrder

\* ----------------------------------------------------------- topk_overlap
\* A dict is kept here as the list of its items in insertion order, which
\* is the order in which the symbols were first counted.
normalize_items(c) ==
    LET total == IntSum([i \in 1..Len(c) |-> c[i][2]], 1..Len(c))
    IN [i \in 1..Len(c) |-> <<c[i][1], RReduce(<<c[i][2], total>>)>>]

RECURSIVE InsertByProbAsc(_, _)
\* x placed behind every item whose probability is not greater.
InsertByProbAsc(items, x) ==
    IF items = <<>> THEN <<x>>
    ELSE IF RLess(x[2], Head(items)[2]) THEN <<x>> \o items
         ELSE <<Head(items)>> \o InsertByProbAsc(Tail(items), x)

RECURSIVE sorted_by_prob_asc(_)
\* sorted(p.items(), key=lambda t: t[1]): the items by rising probability.
sorted_by_prob_asc(items) ==
    IF items = <<>> THEN <<>>
    ELSE InsertByProbAsc(sorted_by_prob_asc(SubSeq(items, 1, Len(items) - 1)),
                         items[Len(items)])

RECURSIVE InsertByProbDesc(_, _)
\* x placed behind every item whose probability is not smaller (sorted()
\* is stable).
InsertByProbDesc(items, x) ==
    IF items = <<>> THEN <<x>>
    ELSE IF RLess(Head(items)[2], x[2]) THEN <<x>> \o items
         ELSE <<Head(items)>> \o InsertByProbDesc(Tail(items), x)

RECURSIVE sorted_by_prob_desc(_)
\* sorted(p.items(), key=lambda t: -t[1])
sorted_by_prob_desc(items) ==
    IF items = <<>> THEN <<>>
    ELSE InsertByProbDesc(sorted_by_prob_desc(SubSeq(items, 1, Len(items) - 1)),
                          items[Len(items)])

\* [x for x, _ in sorted(...)][:k]
top_keys(items, k) ==
    LET ranked == sorted_by_prob_desc(items)
    IN PySlice([i \in 1..Len(ranked) |-> ranked[i][1]], 0, k)

\* Length of the list of example symbols topk_overlap returns.
ExampleLimit == 20

\* list(inter)[:20]: a set is iterated in no fixed order, so any
\* ExampleLimit elements of it, all of them when it has no more.
example_sets(inter) ==
    {S \in SUBSET inter :
        Cardinality(S) = IF Cardinality(inter) < ExampleLimit THEN Cardinality(inter)
                         ELSE ExampleLimit}

\* topk_overlap(p, q, k): the score, and the symbols in both top-k lists.
topk_overlap(p, q, k) ==
    LET inter == Range(top_keys(p, k)) \cap Range(top_keys(q, k))
    IN [overlap |-> IF k > 0 THEN RReduce(<<Cardinality(inter), k>>) ELSE RZero,
        inter |-> inter]

\* Inputs of topk_overlap: tables whose symbols were first seen in any
\* order, and k up to MaxK.
TopkCounts == {1, 2}

RECURSIVE OrderedCountersOver(_)
\* The item lists of the tables over exactly the symbols of K.
OrderedCountersOver(K) ==
    IF K = {} THEN {<<>>}
    ELSE UNION {{Append(c, <<x, n>>) : c \in OrderedCountersOver(K \ {x}), n \in TopkCounts} :
                    x \in K}

OrderedCounters == UNION {OrderedCountersOver(K) : K \in SUBSET Keys}

MaxK == 2

\* ------------------------------------------------------------ folio order
\* Folio identifiers drawn as inputs: strings of at most MaxIdLen
\* characters, and a few fixed ones to be sorted with them.
FolioChars == {"0", "1", "2", "r", "v", "x"}

MaxIdLen == 3

FolioIds == SeqsUpTo(FolioChars, MaxIdLen)

OtherFolioIds == {<<"1", "r">>, <<"1", "v">>, <<"2", "r">>, <<"x">>}

\* The loop header of compute_folio_statistics on the unique folios, with
\* the extract_folio_order call of the loop body for each.
sorted_folio_orders(folios) ==
    LET ordered == SortedFolios(folios)
    IN [i \in 1..Len(ordered) |->
          [folio |-> ordered[i],
           order |-> extract_folio_order(ordered[i])[1],
           side |-> extract_folio_order(ordered[i])[2]]]

\* -------------------------------------------------------- compute_metrics
\* compute_metrics, the first loop: tokens holds the tokens of the last
\* line only (assignment in place of extend).
metrics_tokens_last_line(lines) ==
    IF lines = <<>> THEN <<>> ELSE tokenize(lines[Len(lines)])

\* compute_metrics, the first loop: tokens.extend(tokenize(t)) for t in lines.
metrics_tokens(lines) == Flatten([i \in 1..Len(lines) |-> tokenize(lines[i])])

\* The hapax count divided by the number of tokens.
hapax_ratio_over_tokens(uni) ==
    LET hapax == Cardinality({k \in DOMAIN uni : uni[k] = 1})
    IN IF Total(uni) > 0 THEN RReduce(<<hapax, Total(uni)>>) ELSE RZero

\* hapax / vocab if vocab else 0.0
hapax_ratio(uni) ==
    LET vocab == Cardinality(DOMAIN uni)
        hapax == Cardinality({k \in DOMAIN uni : uni[k] = 1})
    IN IF vocab # 0 THEN RReduce(<<hapax, vocab>>) ELSE RZero

\* report_metrics.compute_metrics(lines); uni and bi are the two tables
\* the top_unigrams and top_bigrams lists are read from.
compute_metrics(lines) ==
    LET tokens == metrics_tokens(lines)
        uni == CounterOf(tokens)
        ngs == ngrams(tokens, 2)
        bi == CounterOf([i \in 1..Len(ngs) |-> JoinSpace(ngs[i])])
    IN [lines |-> Len(lines),
        tokens |-> Total(uni),
        vocab_size |-> Cardinality(DOMAIN uni),
        hapax_legomena |-> Cardinality({k \in DOMAIN uni : uni[k] = 1}),
        hapax_ratio |-> hapax_ratio(uni),
        unigram_entropy_bits |-> shannon_entropy(uni),
        zipf_slope_loglog |-> zipf_slope(uni),
        uni |-> uni,
        bi |-> bi]

\* compare(): the tables v_uni and v_bi of the manuscript lines.
compare_voynich_tables(v_lines) ==
    LET v_tokens == Flatten([i \in 1..Len(v_lines) |-> tokenize(v_lines[i])])
    IN [uni |-> CounterOf(v_tokens), bi |-> CounterOf(bigram_keys(v_tokens))]

\* Texts of the records of an input file of the metrics.
MtTexts ==
    {<<>>, <<"-">>, <<"a">>, <<"a", " ", "b">>, <<"b", " ", "c">>, <<"A", " ", "b", " ", "a">>,
     <<"d", "a", "i", "i", "n", " ", "q", "o", "k", "e", "d", "y", " ", "d", "a", "i", "i", "n">>}

\* Input files: at most MaxLines records, each with a text field.
MtFiles == SeqsUpTo({ObjectLine(JStr(t), JAbsent) : t \in MtTexts}, MaxLines)

\* The strings of a list of string values.
Strings(values) == [i \in 1..Len(values) |-> values[i].v]

\* -------------------------------------------------------------- variables
VARIABLES
    js_counter_p,   \* frequency table the distribution P is derived from
    js_counter_q,   \* frequency table the distribution Q is derived from
    js_corpora,     \* results of compare_corpora.js_divergence, or None
    js_languages,   \* results of compare_languages.js_divergence, or None
    ta_file,        \* rows of the file at TemporalAnalyzer.token_coords_path
    tokens_df,      \* TemporalAnalyzer.tokens_df: None or the loaded rows
    folio_stats,    \* TemporalAnalyzer.folio_stats: None or the statistics
    ta_window_size, \* argument of the last detect_vocabulary_shifts call
    ta_shifts,      \* what that call returned, None before it returns
    ta_error,       \* the exception an analyzer method raised, or None
    zipf_counter,   \* frequency table given to zipf_slope
    zipf_result,    \* None before the call, else Some(what zipf_slope returned)
    rd_file,        \* the JSONL file the readers are given
    rd_report_metrics,  \* None, else Some(outcome of read_lines_from_jsonl)
    rd_compare_corpora, \* None, else Some(outcome of read_voynich_lines)
    rd_stats,       \* None, else Some(outcome of stats.analyze)
    cmp_voynich,    \* the manuscript file compare() is given
    cmp_corpora,    \* sorted(corpora_dir.iterdir())
    cmp_importable, \* whether sentence_transformers can be imported
    cmp_out,         \* None, else Some(outcome of compare())
    ng_tokens, \* token sequence given to ngrams
    ng_n, \* order n given to ngrams
    ng_out, \* None, else Some(which ngrams was called, what it returned)
    tk_text, \* the text value given to a tokenizer entry point
    tk_out, \* None, else Some(entry point called, its tokens or exception)
    tko_p, \* items of the table P is derived from, in first-seen order
    tko_q, \* items of the table Q is derived from, in first-seen order
    tko_k, \* argument k of topk_overlap
    tko_out, \* None, else Some(what topk_overlap returned)
    fo_folios, \* the unique folio identifiers, in file order
    fo_out, \* None, else Some(the folios sorted, each with order and side)
    ent_counter, \* frequency table given to shannon_entropy
    ent_out, \* None, else Some(which shannon_entropy was called, its result)
    mt_file, \* the records of the input file of the metrics
    mt_out, \* None, else Some(module run on the file, what it computed)
    pr_counter, \* frequency table a distribution is derived from
    pr_out, \* None, else Some(function called, the distribution it returned)
    rs_file, \* restart machine: the rows of the token file
    rs_tokens_df, \* restart machine: self.tokens_df
    rs_folio_stats, \* restart machine: self.folio_stats
    rs_returned, \* restart machine: the value the last call returned
    rs_first, \* history: the first detect_vocabulary_shifts call and the data it left
    rs_between, \* history: the other calls made before the same size was asked again
    rs_repeat, \* history: the records of the latest call with the size of the first
    rs_error, \* restart machine: the exception that ended the run
    pl_started, \* pipeline: the steps whose subprocess was started, in order
    pl_codes, \* pipeline: the return codes of the subprocesses that ended
    pl_status, \* pipeline: the exit status of the orchestrator, once it ended
    ag_dir, \* aggregation: reports/hypotheses, whether it exists and its .jsonl files
    ag_out \* aggregation: what the last aggregate() call reported

js_vars == <<js_counter_p, js_counter_q, js_corpora, js_languages>>

ta_vars == <<ta_file, tokens_df, folio_stats, ta_window_size, ta_shifts, ta_error>>

zipf_vars == <<zipf_counter, zipf_result>>

rd_vars == <<rd_file, rd_report_metrics, rd_compare_corpora, rd_stats>>

cmp_vars == <<cmp_voynich, cmp_corpora, cmp_importable, cmp_out>>

ng_vars == <<ng_tokens, ng_n, ng_out>>

tk_vars == <<tk_text, tk_out>>

tko_vars == <<tko_p, tko_q, tko_k, tko_out>>

fo_vars == <<fo_folios, fo_out>>

ent_vars == <<ent_counter, ent_out>>

mt_vars == <<mt_file, mt_out>>

pr_vars == <<pr_counter, pr_out>>

rs_vars == <<rs_file, rs_tokens_df, rs_folio_stats, rs_returned, rs_first, rs_between, rs_repeat, rs_error>>

pl_vars == <<pl_started, pl_codes, pl_status>>

ag_vars == <<ag_dir, ag_out>>

vars == <<js_vars, ta_vars, zipf_vars, rd_vars, cmp_vars, ng_vars, tk_vars, tko_vars, fo_vars, ent_vars, mt_vars, pr_vars, rs_vars, pl_vars, ag_vars>>

not_js == <<ta_vars, zipf_vars, rd_vars, cmp_vars, ng_vars, tk_vars, tko_vars, fo_vars, ent_vars, mt_vars, pr_vars, rs_vars, pl_vars, ag_vars>>

not_ta == <<js_vars, zipf_vars, rd_vars, cmp_vars, ng_vars, tk_vars, tko_vars, fo_vars, ent_vars, mt_vars, pr_vars, rs_vars, pl_vars, ag_vars>>

not_zipf == <<js_vars, ta_vars, rd_vars, cmp_vars, ng_vars, tk_vars, tko_vars, fo_vars, ent_vars, mt_vars, pr_vars, rs_vars, pl_vars, ag_vars>>

not_rd == <<js_vars, ta_vars, zipf_vars, cmp_vars, ng_vars, tk_vars, tko_vars, fo_vars, ent_vars, mt_vars, pr_vars, rs_vars, pl_vars, ag_vars>>

not_cmp == <<js_vars, ta_vars, zipf_vars, rd_vars, ng_vars, tk_vars, tko_vars, fo_vars, ent_vars, mt_vars, pr_vars, rs_vars, pl_vars, ag_vars>>

not_ng == <<js_vars, ta_vars, zipf_vars, rd_vars, cmp_vars, tk_vars, tko_vars, fo_vars, ent_vars, mt_vars, pr_vars, rs_vars, pl_vars, ag_vars>>

NgIdle ==
    /\ ng_tokens = <<>>
    /\ ng_n = 1
    /\ ng_out = None

not_tk == <<js_vars, ta_vars, zipf_vars, rd_vars, cmp_vars, ng_vars, tko_vars, fo_vars, ent_vars, mt_vars, pr_vars, rs_vars, pl_vars, ag_vars>>

TkIdle ==
    /\ tk_text = JStr(<<>>)
    /\ tk_out = None

not_tko == <<js_vars, ta_vars, zipf_vars, rd_vars, cmp_vars, ng_vars, tk_vars, fo_vars, ent_vars, mt_vars, pr_vars, rs_vars, pl_vars, ag_vars>>

TkoIdle ==
    /\ tko_p = <<>>
    /\ tko_q = <<>>
    /\ tko_k = 1
    /\ tko_out = None

not_fo == <<js_vars, ta_vars, zipf_vars, rd_vars, cmp_vars, ng_vars, tk_vars, tko_vars, ent_vars, mt_vars, pr_vars, rs_vars, pl_vars, ag_vars>>

FoIdle ==
    /\ fo_folios = <<>>
    /\ fo_out = None

not_ent == <<js_vars, ta_vars, zipf_vars, rd_vars, cmp_vars, ng_vars, tk_vars, tko_vars, fo_vars, mt_vars, pr_vars, rs_vars, pl_vars, ag_vars>>

EntIdle ==
    /\ ent_counter = EmptyDict
    /\ ent_out = None

not_mt == <<js_vars, ta_vars, zipf_vars, rd_vars, cmp_vars, ng_vars, tk_vars, tko_vars, fo_vars, ent_vars, pr_vars, rs_vars, pl_vars, ag_vars>>

MtIdle ==
    /\ mt_file = <<>>
    /\ mt_out = None

not_pr == <<js_vars, ta_vars, zipf_vars, rd_vars, cmp_vars, ng_vars, tk_vars, tko_vars, fo_vars, ent_vars, mt_vars, rs_vars, pl_vars, ag_vars>>

PrIdle ==
    /\ pr_counter = EmptyDict
    /\ pr_out = None

not_rs == <<js_vars, ta_vars, zipf_vars, rd_vars, cmp_vars, ng_vars, tk_vars, tko_vars, fo_vars, ent_vars, mt_vars, pr_vars, pl_vars, ag_vars>>

RsIdle ==
    /\ rs_file = <<>>
    /\ rs_tokens_df = None
    /\ rs_folio_stats = None
    /\ rs_returned = None
    /\ rs_first = None
    /\ rs_between = {}
    /\ rs_repeat = None
    /\ rs_error = None

not_pl == <<js_vars, ta_vars, zipf_vars, rd_vars, cmp_vars, ng_vars, tk_vars, tko_vars, fo_vars, ent_vars, mt_vars, pr_vars, rs_vars, ag_vars>>

PlIdle ==
    /\ pl_started = <<>>
    /\ pl_codes = <<>>
    /\ pl_status = None

not_ag == <<js_vars, ta_vars, zipf_vars, rd_vars, cmp_vars, ng_vars, tk_vars, tko_vars, fo_vars, ent_vars, mt_vars, pr_vars, rs_vars, pl_vars>>

AgIdle ==
    /\ ag_dir = [exists |-> FALSE, files |-> <<>>]
    /\ ag_out = None

RdIdle ==
    /\ rd_file = None
    /\ rd_report_metrics = None
    /\ rd_compare_corpora = None
    /\ rd_stats = None

CmpIdle ==
    /\ cmp_voynich = None
    /\ cmp_corpora = <<>>
    /\ cmp_importable = FALSE
    /\ cmp_out = None

\* TemporalAnalyzer.__init__ on an empty token file.
TaIdle ==
    /\ ta_file = <<>>
    /\ tokens_df = None
    /\ folio_stats = None
    /\ ta_window_size = None
    /\ ta_shifts = None
    /\ ta_error = None

ZipfIdle ==
    /\ zipf_counter = EmptyDict
    /\ zipf_result = None

\* ---------------------------------------- divergence engine: state machine
JsIdle ==
    /\ js_counter_p = EmptyDict
    /\ js_counter_q = EmptyDict
    /\ js_corpora = None
    /\ js_languages = None

InitJSD ==
    /\ js_counter_p \in Counters
    /\ js_counter_q \in Counters
    /\ js_corpora = None
    /\ js_languages = None
    /\ TaIdle
    /\ ZipfIdle
    /\ RdIdle
    /\ CmpIdle
    /\ NgIdle
    /\ TkIdle
    /\ TkoIdle
    /\ FoIdle
    /\ EntIdle
    /\ MtIdle
    /\ PrIdle
    /\ RsIdle
    /\ PlIdle
    /\ AgIdle

\* compare(): p = counter_to_prob(...), then js_divergence on it; the three
\* results are those of the calls (P, Q), (Q, P) and (P, P).
CallCorporaJs ==
    /\ js_corpora = None
    /\ LET p == counter_to_prob(js_counter_p)
           q == counter_to_prob(js_counter_q)
       IN js_corpora' = Some([pq |-> compare_corpora_js_divergence(p, q),
                              qp |-> compare_corpora_js_divergence(q, p),
                              pp |-> compare_corpora_js_divergence(p, p)])
    /\ UNCHANGED <<js_counter_p, js_counter_q, js_languages, not_js>>

\* analyze_corpus(): p, _ = normalize_counter(...), then js_divergence.
CallLanguagesJs ==
    /\ js_languages = None
    /\ LET p == normalize_counter(js_counter_p)[1]
           q == normalize_counter(js_counter_q)[1]
       IN js_languages' = Some([pq |-> compare_languages_js_divergence(p, q),
                                qp |-> compare_languages_js_divergence(q, p),
                                pp |-> compare_languages_js_divergence(p, p)])
    /\ UNCHANGED <<js_counter_p, js_counter_q, js_corpora, not_js>>

NextJSD == CallCorporaJs \/ CallLanguagesJs

SpecJSD == InitJSD /\ [][NextJSD]_vars

\* Both engines have been applied to (P, Q).
JsBothCalled == js_corpora # None /\ js_languages # None

\* C1: js_divergence(P, P) is exactly 0 for every distribution P, the empty
\* one included, in compare_corpora and in compare_languages.
C1_SelfDivergenceZero ==
    /\ js_corpora # None => JsdIsZero(js_corpora[1].pp)
    /\ js_languages # None => JsdIsZero(js_languages[1].pp)

\* C1 witness: both engines returned for a P with several keys and unequal
\* counts, and both for the empty P.
C1_Witness ==
    /\ JsBothCalled
    /\ Cardinality(DOMAIN js_counter_p) >= 2
    /\ \E k, l \in DOMAIN js_counter_p : js_counter_p[k] # js_counter_p[l]

\* C2: js_divergence(P, Q) = js_divergence(Q, P) for all P and Q, whatever
\* their key sets, in both engines.
C2_Symmetric ==
    /\ js_corpora # None => js_corpora[1].pq = js_corpora[1].qp
    /\ js_languages # None => js_languages[1].pq = js_languages[1].qp

\* C2 witness: both engines returned for P and Q over different, overlapping
\* key sets, with a divergence that is neither 0 nor 1.
C2_Witness ==
    /\ JsBothCalled
    /\ DOMAIN js_counter_p # DOMAIN js_counter_q
    /\ (DOMAIN js_counter_p) \cap (DOMAIN js_counter_q) # {}
    /\ ~ JsdIsZero(js_corpora[1].pq)
    /\ ~ JsdIsOne(js_corpora[1].pq)

JsSupportsDisjoint == (DOMAIN js_counter_p) \cap (DOMAIN js_counter_q) = {}

JsBothValid == js_counter_p # EmptyDict /\ js_counter_q # EmptyDict

\* C3: for valid (non-empty, summing to 1) P and Q, js_divergence(P, Q) lies
\* in [0, 1] and is 1 only when the supports are disjoint.
C3_Bounded ==
    JsBothValid =>
        /\ js_corpora # None =>
             /\ JsdInUnitInterval(js_corpora[1].pq)
             /\ JsdIsOne(js_corpora[1].pq) => JsSupportsDisjoint
        /\ js_languages # None =>
             /\ JsdInUnitInterval(js_languages[1].pq)
             /\ JsdIsOne(js_languages[1].pq) => JsSupportsDisjoint

\* C3 witness: disjoint supports reach 1 in both engines.
C3_Witness ==
    /\ JsBothCalled
    /\ JsBothValid
    /\ JsSupportsDisjoint
    /\ JsdIsOne(js_corpora[1].pq)
    /\ JsdIsOne(js_languages[1].pq)

\* A divergence value j = <<n, d>> that is exactly one half.
JsdIsHalf(j) == 2 * j[1] = j[2] * FixOne

\* C29: in both engines js_divergence(P, {}) = js_divergence({}, P) = 0.5
\* for every non-empty P and js_divergence({}, {}) = 0; so whatever the
\* manuscript's distribution P, the value for an empty reference corpus is
\* strictly below the value for a non-empty corpus Q whose vocabulary is
\* disjoint from P's, and the empty corpus is ranked before it.
C29_EmptyDistribution ==
    JsBothCalled =>
        LET p == counter_to_prob(js_counter_p)
            q == counter_to_prob(js_counter_q)
        IN /\ (js_counter_p # EmptyDict /\ js_counter_q = EmptyDict) =>
                /\ JsdIsHalf(js_corpora[1].pq)
                /\ JsdIsHalf(js_corpora[1].qp)
                /\ JsdIsHalf(js_languages[1].pq)
                /\ JsdIsHalf(js_languages[1].qp)
           /\ (js_counter_p = EmptyDict /\ js_counter_q = EmptyDict) =>
                /\ JsdIsZero(js_corpora[1].pq)
                /\ JsdIsZero(js_languages[1].pq)
           /\ (js_counter_q # EmptyDict /\ JsSupportsDisjoint) =>
                /\ JsdLess(compare_corpora_js_divergence(p, EmptyDict), js_corpora[1].pq)
                /\ JsdLess(compare_languages_js_divergence(p, EmptyDict),
                           js_languages[1].pq)

\* C29 witness: both engines returned for a P with several keys and unequal
\* counts and the empty Q.
C29_Witness ==
    /\ JsBothCalled
    /\ js_counter_q = EmptyDict
    /\ Cardinality(DOMAIN js_counter_p) >= 2
    /\ \E k, l \in DOMAIN js_counter_p : js_counter_p[k] # js_counter_p[l]

\* ---------------------------------------- temporal analyzer: state machine
\* "if self.tokens_df is None: self.load_data()" followed by the body of
\* compute_folio_statistics; tokens_df['folio'] raises KeyError on a
\* DataFrame without rows.
run_compute_folio_statistics(file, tdf) ==
    LET loaded == IF tdf = None THEN load_data(file)
                  ELSE [tokens_df |-> tdf, error |-> None]
        rows == loaded.tokens_df[1]
    IN IF loaded.error # None
       THEN [tokens_df |-> loaded.tokens_df, folio_stats |-> None, error |-> loaded.error]
       ELSE IF rows = <<>>
            THEN [tokens_df |-> loaded.tokens_df, folio_stats |-> None,
                  error |-> Some("KeyError")]
            ELSE [tokens_df |-> loaded.tokens_df,
                  folio_stats |-> Some(compute_folio_statistics(rows)),
                  error |-> None]

\* "if self.folio_stats is None: self.compute_folio_statistics()" followed
\* by the body of detect_vocabulary_shifts.
run_detect_vocabulary_shifts(file, tdf, fstats, window_size) ==
    LET computed == IF fstats = None THEN run_compute_folio_statistics(file, tdf)
                    ELSE [tokens_df |-> tdf, folio_stats |-> fstats, error |-> None]
    IN IF computed.error # None
       THEN [tokens_df |-> computed.tokens_df, folio_stats |-> computed.folio_stats,
             shifts |-> None, error |-> computed.error]
       ELSE [tokens_df |-> computed.tokens_df, folio_stats |-> computed.folio_stats,
             shifts |-> Some(detect_vocabulary_shifts(computed.folio_stats[1], window_size)),
             error |-> None]

Init ==
    /\ ta_file \in TaFiles
    /\ tokens_df = None
    /\ folio_stats = None
    /\ ta_window_size = None
    /\ ta_shifts = None
    /\ ta_error = None
    /\ JsIdle
    /\ ZipfIdle
    /\ RdIdle
    /\ CmpIdle
    /\ NgIdle
    /\ TkIdle
    /\ TkoIdle
    /\ FoIdle
    /\ EntIdle
    /\ MtIdle
    /\ PrIdle
    /\ RsIdle
    /\ PlIdle
    /\ AgIdle

\* analyzer.load_data()
LoadData ==
    /\ ta_error = None
    /\ tokens_df' = load_data(ta_file).tokens_df
    /\ ta_error' = load_data(ta_file).error
    /\ UNCHANGED <<ta_file, folio_stats, ta_window_size, ta_shifts, not_ta>>

\* analyzer.compute_folio_statistics()
ComputeFolioStatistics ==
    /\ ta_error = None
    /\ LET r == run_compute_folio_statistics(ta_file, tokens_df)
       IN /\ tokens_df' = r.tokens_df
          /\ folio_stats' = IF r.error = None THEN r.folio_stats ELSE folio_stats
          /\ ta_error' = r.error
    /\ UNCHANGED <<ta_file, ta_window_size, ta_shifts, not_ta>>

\* analyzer.detect_vocabulary_shifts(window_size)
DetectVocabularyShifts ==
    /\ ta_error = None
    /\ \E window_size \in WindowSizes :
         LET r == run_detect_vocabulary_shifts(ta_file, tokens_df, folio_stats, window_size)
         IN /\ tokens_df' = r.tokens_df
            /\ folio_stats' = r.folio_stats
            /\ ta_window_size' = Some(window_size)
            /\ ta_shifts' = r.shifts
            /\ ta_error' = r.error
    /\ UNCHANGED <<ta_file, not_ta>>

Next == LoadData \/ ComputeFolioStatistics \/ DetectVocabularyShifts

Spec == Init /\ [][Next]_vars

\* detect_vocabulary_shifts(w) has returned its records.
TaReturned == ta_shifts # None

TaFolios == [i \in 1..Len(folio_stats[1]) |-> folio_stats[1][i].folio]

Max0(x) == IF x > 0 THEN x ELSE 0

\* C4: for N units (each with at least one token) and a window size w >= 1
\* detect_vocabulary_shifts returns exactly max(0, N - 2w + 1) records, the
\* i-th comparing the w units [i, i+w) with the w units [i+w, i+2w), so no
\* record is computed from a window of fewer than w units.
C4_WindowPairCount ==
    (TaReturned /\ ta_window_size[1] >= 1) =>
        LET N == Len(folio_stats[1])
            w == ta_window_size[1]
        IN /\ Len(ta_shifts[1]) = Max0(N - 2 * w + 1)
           /\ \A i \in 1..Len(ta_shifts[1]) :
                /\ ta_shifts[1][i].window_start = TaFolios[i]
                /\ ta_shifts[1][i].window_end = TaFolios[i + 2 * w - 1]

FourFolios == <<FolioName(1), FolioName(2), FolioName(3), FolioName(4)>>

\* The analysis of the folios 1r, 1v, 2r, 2v with window size 1 has returned.
C5_Case ==
    /\ TaReturned
    /\ ta_window_size = Some(1)
    /\ TaFolios = FourFolios

\* C5 as stated: the folios 1r, 1v, 2r, 2v with window size 1 give exactly 2
\* adjacent-window comparisons.
C5_TwoComparisons == C5_Case => Len(ta_shifts[1]) = 2

\* C5 amended: the folios 1r, 1v, 2r, 2v with window size 1 give exactly 3
\* adjacent-window comparisons: 1r with 1v, 1v with 2r, 2r with 2v.
C5_ThreeComparisons ==
    C5_Case =>
        /\ Len(ta_shifts[1]) = 3
        /\ \A i \in 1..3 :
             /\ ta_shifts[1][i].window_start = FourFolios[i]
             /\ ta_shifts[1][i].window_end = FourFolios[i + 1]

\* C5 witness: that analysis has returned, from a file that lists the four
\* folios in reverse.
C5_Witness ==
    /\ C5_Case
    /\ ta_file[1].folio = FolioName(4)

\* C6: detect_vocabulary_shifts with a window size <= 0 fails with an error
\* and never returns a result.
C6_NonPositiveWindowFails ==
    (ta_window_size # None /\ ta_window_size[1] <= 0) =>
        /\ ta_error # None
        /\ ta_shifts = None

\* ----------------------------------------------- zipf slope: state machine
InitZipf ==
    /\ zipf_counter \in ZipfCounters
    /\ zipf_result = None
    /\ JsIdle
    /\ TaIdle
    /\ RdIdle
    /\ CmpIdle
    /\ NgIdle
    /\ TkIdle
    /\ TkoIdle
    /\ FoIdle
    /\ EntIdle
    /\ MtIdle
    /\ PrIdle
    /\ RsIdle
    /\ PlIdle
    /\ AgIdle

\* compute_metrics(): zipf = zipf_slope(uni)
CallZipfSlope ==
    /\ zipf_result = None
    /\ zipf_result' = Some(zipf_slope(zipf_counter))
    /\ UNCHANGED <<zipf_counter, not_zipf>>

NextZipf == CallZipfSlope

SpecZipf == InitZipf /\ [][NextZipf]_vars

\* The frequency values that occur in the table.
ZipfDistinctFreqs == {zipf_counter[k] : k \in DOMAIN zipf_counter}

\* C7: zipf_slope returns None for every table with fewer than 3 distinct
\* frequency values, and a number only when at least 3 distinct values exist.
C7_UndefinedBelowThreeDistinct ==
    zipf_result # None =>
        (zipf_result[1] = None <=> Cardinality(ZipfDistinctFreqs) < 3)

\* Position of a folio in the folio statistics.
TaPosition(folio) == CHOOSE i \in 1..Len(folio_stats[1]) : folio_stats[1][i].folio = folio

\* The vocabulary of the folios at the positions from..to of the statistics.
TaVocabulary(from, to) == UNION {Range(folio_stats[1][i].tokens) : i \in from..to}

\* C19: the Jaccard similarity of every record detect_vocabulary_shifts
\* returned is |A /\ B| / |A \/ B| for the vocabulary A of its first
\* window and B of its second: within [0, 1], 1 when A = B and 0 when A
\* and B are disjoint.
C19_Jaccard ==
    TaReturned =>
        \A r \in 1..Len(ta_shifts[1]) :
            LET rec == ta_shifts[1][r]
                first == TaPosition(rec.window_start)
                A == TaVocabulary(first, first + ta_window_size[1] - 1)
                B == TaVocabulary(first + ta_window_size[1], TaPosition(rec.window_end))
                j == rec.jaccard_similarity
            IN /\ j[1] * Cardinality(A \cup B) = Cardinality(A \cap B) * j[2]
               /\ 0 <= j[1]
               /\ j[1] <= j[2]
               /\ (A = B => j = <<1, 1>>)
               /\ ((A \cap B = {} /\ A # {} /\ B # {}) => j = <<0, 1>>)

\* detect_vocabulary_shifts has returned a record of two equal
\* vocabularies, one of two disjoint vocabularies and one of two that
\* overlap in part.
C19_Witness ==
    /\ TaReturned
    /\ \E r \in 1..Len(ta_shifts[1]) : ta_shifts[1][r].jaccard_similarity = <<1, 1>>
    /\ \E r \in 1..Len(ta_shifts[1]) : ta_shifts[1][r].jaccard_similarity = <<0, 1>>
    /\ \E r \in 1..Len(ta_shifts[1]) : ta_shifts[1][r].jaccard_similarity = <<1, 2>>

\* The tokens of the folios at the positions from..to of the statistics.
TaWindowTokens(from, to) ==
    IF to < from THEN <<>>
    ELSE Flatten([i \in 1..(to - from + 1) |-> folio_stats[1][from + i - 1].tokens])

\* C28: the JSD of every record detect_vocabulary_shifts returned for a
\* window size w >= 1 is the divergence engine's base-2 Jensen-Shannon
\* divergence of the unigram distributions of its two windows: within
\* [0, 1], and exactly 1 when the two vocabularies are disjoint.
C28_JsdIsEngineJsd ==
    (TaReturned /\ ta_window_size[1] >= 1) =>
        \A r \in 1..Len(ta_shifts[1]) :
            LET rec == ta_shifts[1][r]
                first == TaPosition(rec.window_start)
                tokens1 == TaWindowTokens(first, first + ta_window_size[1] - 1)
                tokens2 == TaWindowTokens(first + ta_window_size[1],
                                          TaPosition(rec.window_end))
                engine == compare_corpora_js_divergence(counter_to_prob(CounterOf(tokens1)),
                                                        counter_to_prob(CounterOf(tokens2)))
                j == rec.jsd_distance
            IN /\ j[1] * engine[2] = engine[1] * j[2]
               /\ JsdInUnitInterval(j)
               /\ (Range(tokens1) \cap Range(tokens2) = {} => JsdIsOne(j))

\* C14: on an empty token file no method of the analyzer raises: its
\* statistics (and the report made from them) are produced.
C14_EmptyCorpusNoFailure ==
    ta_file = <<>> => ta_error = None

\* ------------------------------------------------ compare(): state machine
InitCompare ==
    /\ cmp_voynich \in CmpVoynichFiles
    /\ cmp_corpora \in CorporaDirs
    /\ cmp_importable \in BOOLEAN
    /\ cmp_out = None
    /\ JsIdle
    /\ TaIdle
    /\ ZipfIdle
    /\ RdIdle
    /\ NgIdle
    /\ TkIdle
    /\ TkoIdle
    /\ FoIdle
    /\ EntIdle
    /\ MtIdle
    /\ PrIdle
    /\ RsIdle
    /\ PlIdle
    /\ AgIdle

\* One call of compare() on the manuscript file and the corpora directory.
Compare ==
    /\ cmp_out = None
    /\ cmp_out' = Some(compare(cmp_voynich, cmp_corpora, cmp_importable))
    /\ UNCHANGED <<cmp_voynich, cmp_corpora, cmp_importable, not_cmp>>

NextCompare == Compare

SpecCompare == InitCompare /\ [][NextCompare]_vars

CmpReturned == cmp_out # None /\ cmp_out[1].error = None

CmpFiles == {i \in 1..Len(cmp_corpora) : cmp_corpora[i].is_file}

\* rows[i] never has a greater unigram JSD than a row behind it.
RankedByJsd(rows) ==
    \A i, j \in 1..Len(rows) : i < j => ~JsdLess(rows[j].jsd_unigram, rows[i].jsd_unigram)

RowNames(rows) == [i \in 1..Len(rows) |-> rows[i].corpus]

\* C8 as stated: once compare() has returned, the rows of its summary
\* outputs, summary.csv and summary.md alike, are in non-decreasing order of
\* unigram JSD and there is one row per corpus file of the directory.
C8_AllSummariesRanked ==
    CmpReturned =>
        /\ RankedByJsd(cmp_out[1].csv)
        /\ RankedByJsd(cmp_out[1].md)
        /\ Range(RowNames(cmp_out[1].csv)) = CmpFiles
        /\ Range(RowNames(cmp_out[1].md)) = CmpFiles
        /\ Len(cmp_out[1].csv) = Cardinality(CmpFiles)
        /\ Len(cmp_out[1].md) = Cardinality(CmpFiles)

\* C8 amended: once compare() has returned, the rows of summary.md are in
\* non-decreasing order of unigram JSD, summary.csv holds the same rows in
\* the order of the corpus file names, and each of the two has exactly one
\* row per corpus file of the directory.
C8_MarkdownRanked ==
    CmpReturned =>
        /\ RankedByJsd(cmp_out[1].md)
        /\ \A i, j \in 1..Len(cmp_out[1].csv) :
               i < j => cmp_out[1].csv[i].corpus < cmp_out[1].csv[j].corpus
        /\ Range(cmp_out[1].md) = Range(cmp_out[1].csv)
        /\ Range(RowNames(cmp_out[1].csv)) = CmpFiles
        /\ Range(RowNames(cmp_out[1].md)) = CmpFiles
        /\ Len(cmp_out[1].csv) = Cardinality(CmpFiles)
        /\ Len(cmp_out[1].md) = Cardinality(CmpFiles)

\* compare() has returned on a directory of several corpus files whose
\* file-name order is not the order of their unigram JSD.
C8_Witness ==
    /\ CmpReturned
    /\ Cardinality(CmpFiles) >= 2
    /\ ~RankedByJsd(cmp_out[1].csv)
    /\ cmp_out[1].md # cmp_out[1].csv

\* Every line of the manuscript file is a record with a string text or a
\* list of tokens.
CmpWellFormed ==
    \A i \in 1..Len(cmp_voynich[1]) :
        /\ cmp_voynich[1][i].kind = "object"
        /\ cmp_voynich[1][i].text.t \in {"absent", "str"}
        /\ cmp_voynich[1][i].tokens.t \in {"absent", "list"}

CmpManuscriptTokens ==
    Flatten([i \in 1..Len(cmp_voynich[1]) |->
                tokenize(text_or_joined_tokens(cmp_voynich[1][i]).value.v)])

CmpEmptyCorpora == {i \in CmpFiles : tokenize(cmp_corpora[i].text) = <<>>}

CmpHasEmptyStream == CmpEmptyCorpora # {} \/ CmpManuscriptTokens = <<>>

\* C9: a compare() run on a manuscript file of well-formed records in which
\* a corpus file, or the manuscript, has no tokens returns without an
\* exception; every corpus file, the empty ones included, has its detail
\* and its row in both summaries, and every unigram and bigram JSD is a
\* number in [0, 1].
C9_EmptyStreamTolerated ==
    (cmp_out # None /\ CmpWellFormed /\ CmpHasEmptyStream) =>
        /\ cmp_out[1].error = None
        /\ Range(RowNames(cmp_out[1].results)) = CmpFiles
        /\ Range(RowNames(cmp_out[1].csv)) = CmpFiles
        /\ Range(RowNames(cmp_out[1].md)) = CmpFiles
        /\ \A i \in 1..Len(cmp_out[1].results) :
               /\ JsdInUnitInterval(cmp_out[1].results[i].jsd_unigram)
               /\ JsdInUnitInterval(cmp_out[1].results[i].jsd_bigram)
               /\ (cmp_out[1].results[i].corpus \in CmpEmptyCorpora
                      => cmp_out[1].results[i].top_unigrams = <<>>)

\* compare() has run on a manuscript with tokens and a directory holding a
\* corpus without tokens and one with tokens.
C9_Witness ==
    /\ cmp_out # None
    /\ CmpWellFormed
    /\ CmpManuscriptTokens # <<>>
    /\ CmpEmptyCorpora # {}
    /\ CmpFiles \ CmpEmptyCorpora # {}

\* C24: a compare() run on a manuscript file of well-formed records with
\* sentence_transformers not importable returns without an exception;
\* every corpus file has its result, whose embedding similarity is None
\* and whose unigram and bigram JSD are numbers in [0, 1], and its row in
\* both summaries.
C24_NoEmbeddingLibrary ==
    (cmp_out # None /\ CmpWellFormed /\ ~cmp_importable) =>
        /\ cmp_out[1].error = None
        /\ Range(RowNames(cmp_out[1].results)) = CmpFiles
        /\ Len(cmp_out[1].results) = Cardinality(CmpFiles)
        /\ Len(cmp_out[1].csv) = Cardinality(CmpFiles)
        /\ Len(cmp_out[1].md) = Cardinality(CmpFiles)
        /\ \A i \in 1..Len(cmp_out[1].results) :
               /\ cmp_out[1].results[i].embedding_similarity = None
               /\ cmp_out[1].csv[i].embedding_similarity = None
               /\ cmp_out[1].md[i].embedding_similarity = None
               /\ JsdInUnitInterval(cmp_out[1].results[i].jsd_unigram)
               /\ JsdInUnitInterval(cmp_out[1].results[i].jsd_bigram)

\* compare() has run without the library on a manuscript with lines and a
\* directory of several corpus files with text.
C24_Witness ==
    /\ cmp_out # None
    /\ CmpWellFormed
    /\ ~cmp_importable
    /\ cmp_voynich[1] # <<>>
    /\ Cardinality({i \in CmpFiles : cmp_corpora[i].text # <<>>}) >= 2
    /\ cmp_out[1].error = None

\* ------------------------------------------- JSONL readers: state machine
InitReaders ==
    /\ rd_file \in JsonlFiles
    /\ rd_report_metrics = None
    /\ rd_compare_corpora = None
    /\ rd_stats = None
    /\ JsIdle
    /\ TaIdle
    /\ ZipfIdle
    /\ CmpIdle
    /\ NgIdle
    /\ TkIdle
    /\ TkoIdle
    /\ FoIdle
    /\ EntIdle
    /\ MtIdle
    /\ PrIdle
    /\ RsIdle
    /\ PlIdle
    /\ AgIdle

\* report_metrics.read_lines_from_jsonl(path)
ReadLinesFromJsonl ==
    /\ rd_report_metrics = None
    /\ rd_report_metrics' = Some(read_lines_from_jsonl(rd_file))
    /\ UNCHANGED <<rd_file, rd_compare_corpora, rd_stats, not_rd>>

\* compare_corpora.read_voynich_lines(path)
ReadVoynichLines ==
    /\ rd_compare_corpora = None
    /\ rd_compare_corpora' = Some(read_voynich_lines(rd_file))
    /\ UNCHANGED <<rd_file, rd_report_metrics, rd_stats, not_rd>>

\* stats.analyze(input_path, out_path), which drains stats.read_jsonl
StatsAnalyze ==
    /\ rd_stats = None
    /\ rd_stats' = Some(stats_analyze(rd_file))
    /\ UNCHANGED <<rd_file, rd_report_metrics, rd_compare_corpora, not_rd>>

NextReaders == ReadLinesFromJsonl \/ ReadVoynichLines \/ StatsAnalyze

SpecReaders == InitReaders /\ [][NextReaders]_vars

\* A line that is blank, is no JSON at all, or is a record with a string
\* text or a list of tokens.
RdRecordOrGarbage(ln) ==
    \/ ln.kind \in {"blank", "invalid"}
    \/ /\ ln.kind = "object"
       /\ ln.text.t \in {"absent", "str"}
       /\ ln.tokens.t \in {"absent", "list"}

RdFileOfRecordsAndGarbage ==
    /\ rd_file # None
    /\ \A i \in 1..Len(rd_file[1]) : RdRecordOrGarbage(rd_file[1][i])

\* The texts of the records of the file, in order, the empty ones left out.
RdRecordTexts ==
    LET recs == SelectSeq(rd_file[1], LAMBDA ln : ln.kind = "object")
        texts == [i \in 1..Len(recs) |-> text_or_joined_tokens(recs[i]).value]
    IN SelectSeq(texts, LAMBDA t : t.v # <<>>)

\* C10 as stated: on a file whose lines are records or lines that are no
\* JSON, each of the three readers finishes without an exception, and the
\* two line readers return the texts of all the records.
C10_ReadersSkipMalformed ==
    RdFileOfRecordsAndGarbage =>
        /\ rd_report_metrics # None =>
               /\ rd_report_metrics[1].error = None
               /\ rd_report_metrics[1].lines = RdRecordTexts
        /\ rd_compare_corpora # None =>
               /\ rd_compare_corpora[1].error = None
               /\ rd_compare_corpora[1].lines = RdRecordTexts
        /\ rd_stats # None => rd_stats[1].error = None

\* The line text of a record: its text when that is a non-empty string,
\* otherwise its tokens joined by single spaces.
RdLineText(ln) ==
    IF ln.text.t = "str" /\ ln.text.v # <<>> THEN ln.text.v
    ELSE IF ln.tokens.t = "list" THEN JoinSpace(ln.tokens.v) ELSE <<>>

\* The file exists and each of its lines is a record whose text is a
\* string or absent and whose tokens are a list or absent.
RdFileOfRecords ==
    /\ rd_file # None
    /\ \A i \in 1..Len(rd_file[1]) :
           /\ rd_file[1][i].kind = "object"
           /\ rd_file[1][i].text.t \in {"absent", "str"}
           /\ rd_file[1][i].tokens.t \in {"absent", "list"}

\* The line texts of the records that yield a text, in file order.
RdLineTexts ==
    LET texts == [i \in 1..Len(rd_file[1]) |-> RdLineText(rd_file[1][i])]
    IN SelectSeq(texts, LAMBDA t : t # <<>>)

\* C11: on a file of records, read_lines_from_jsonl and read_voynich_lines
\* return exactly the line texts (text, else the joined tokens) of the
\* records that yield one, and stats.analyze counts exactly those records
\* as lines and exactly the tokens of those line texts.
C11_TextElseJoinedTokens ==
    RdFileOfRecords =>
        /\ rd_report_metrics # None =>
               rd_report_metrics[1].lines = [i \in 1..Len(RdLineTexts) |-> JStr(RdLineTexts[i])]
        /\ rd_compare_corpora # None =>
               rd_compare_corpora[1].lines = [i \in 1..Len(RdLineTexts) |-> JStr(RdLineTexts[i])]
        /\ rd_stats # None =>
               /\ rd_stats[1].error = None
               /\ rd_stats[1].lines = Len(RdLineTexts)
               /\ rd_stats[1].tokens =
                      Len(Flatten([i \in 1..Len(RdLineTexts) |-> tokenize(RdLineTexts[i])]))

\* --------------------------------------------------- ngrams: state machine
InitNgrams ==
    /\ ng_tokens \in NgSequences
    /\ ng_n \in NgOrders
    /\ ng_out = None
    /\ JsIdle
    /\ TaIdle
    /\ ZipfIdle
    /\ RdIdle
    /\ CmpIdle
    /\ TkIdle
    /\ TkoIdle
    /\ FoIdle
    /\ EntIdle
    /\ MtIdle
    /\ PrIdle
    /\ RsIdle
    /\ PlIdle
    /\ AgIdle

\* report_metrics.ngrams(tokens, n)
NgramsReportMetrics ==
    /\ ng_out = None
    /\ ng_out' = Some([module |-> "report_metrics", result |-> ngrams(ng_tokens, ng_n)])
    /\ UNCHANGED <<ng_tokens, ng_n, not_ng>>

\* stats.ngrams(tokens, n), the same three lines as report_metrics.ngrams
NgramsStats ==
    /\ ng_out = None
    /\ ng_out' = Some([module |-> "stats", result |-> ngrams(ng_tokens, ng_n)])
    /\ UNCHANGED <<ng_tokens, ng_n, not_ng>>

\* compare_corpora.ngrams(tokens, n)
NgramsCompareCorpora ==
    /\ ng_out = None
    /\ ng_out' = Some([module |-> "compare_corpora",
                       result |-> compare_corpora_ngrams(ng_tokens, ng_n)])
    /\ UNCHANGED <<ng_tokens, ng_n, not_ng>>

NextNgrams == NgramsReportMetrics \/ NgramsStats \/ NgramsCompareCorpora

SpecNgrams == InitNgrams /\ [][NextNgrams]_vars

\* C12: whichever ngrams was called with an order n <= 0, it returned the
\* empty list.
C12_NonPositiveOrderEmpty ==
    (ng_out # None /\ ng_n <= 0) => ng_out[1].result = <<>>

\* C16: whichever ngrams was called with an order n >= 1 on L tokens, it
\* returned max(0, L - n + 1) tuples and the i-th is the n tokens from
\* position i on, so that fewer than n tokens give no n-gram.
C16_NgramCountAndContent ==
    (ng_out # None /\ ng_n >= 1) =>
        /\ Len(ng_out[1].result) = Max0(Len(ng_tokens) - ng_n + 1)
        /\ \A i \in 1..Len(ng_out[1].result) :
               ng_out[1].result[i] = SubSeq(ng_tokens, i, i + ng_n - 1)
        /\ (Len(ng_tokens) < ng_n => ng_out[1].result = <<>>)

\* compare_corpora.ngrams has returned several n-grams of an order >= 2.
C16_Witness ==
    /\ ng_out # None
    /\ ng_out[1].module = "compare_corpora"
    /\ ng_n >= 2
    /\ Len(ng_out[1].result) >= 2

\* ------------------------------------------------ tokenizer: state machine
InitTokenize ==
    /\ tk_text \in TkTexts
    /\ tk_out = None
    /\ JsIdle
    /\ TaIdle
    /\ ZipfIdle
    /\ RdIdle
    /\ CmpIdle
    /\ NgIdle
    /\ TkoIdle
    /\ FoIdle
    /\ EntIdle
    /\ MtIdle
    /\ PrIdle
    /\ RsIdle
    /\ PlIdle
    /\ AgIdle

\* stats.tokenize(text)
TokenizeStats ==
    /\ tk_out = None
    /\ tk_out' = Some([module |-> "stats"] @@ tokenize_value(tk_text))
    /\ UNCHANGED <<tk_text, not_tk>>

\* report_metrics.tokenize(text)
TokenizeReportMetrics ==
    /\ tk_out = None
    /\ tk_out' = Some([module |-> "report_metrics"] @@ tokenize_value(tk_text))
    /\ UNCHANGED <<tk_text, not_tk>>

\* compare_corpora.tokenize(text)
TokenizeCompareCorpora ==
    /\ tk_out = None
    /\ tk_out' = Some([module |-> "compare_corpora"] @@ tokenize_value(tk_text))
    /\ UNCHANGED <<tk_text, not_tk>>

\* tokenize_jsonl on a file of one record whose text is tk_text
TokenizeJsonl ==
    /\ tk_out = None
    /\ tk_out' = Some([module |-> "ingest.tokenize"] @@ tokenize_jsonl_record(tk_text))
    /\ UNCHANGED <<tk_text, not_tk>>

NextTokenize ==
    TokenizeStats \/ TokenizeReportMetrics \/ TokenizeCompareCorpora \/ TokenizeJsonl

SpecTokenize == InitTokenize /\ [][NextTokenize]_vars

\* C13: whichever tokenizer entry point was given the empty string or
\* null, it raised nothing and yielded no token.
C13_EmptyOrNullGivesNoTokens ==
    (tk_out # None /\ (tk_text = JNull \/ tk_text = JStr(<<>>))) =>
        /\ tk_out[1].error = None
        /\ tk_out[1].tokens = <<>>

\* The characters a-z and 0-9.
AsciiAlnum == AsciiLowerLetters \cup Digits

\* The positions of text where a run of characters of A begins.
RunStarts(text, A) ==
    {i \in 1..Len(text) : text[i] \in A /\ (i = 1 \/ text[i - 1] \notin A)}

\* The last position of the run of characters of A that begins at i.
RunEnd(text, A, i) ==
    CHOOSE j \in i..Len(text) :
        /\ \A k \in i..j : text[k] \in A
        /\ (j = Len(text) \/ text[j + 1] \notin A)

\* The maximal runs of characters of A in text, left to right.
MaximalRuns(text, A) ==
    LET starts == RunStarts(text, A)
        nth(n) == CHOOSE i \in starts : Cardinality({j \in starts : j <= i}) = n
    IN [n \in 1..Cardinality(starts) |-> SubSeq(text, nth(n), RunEnd(text, A, nth(n)))]

\* C15: whichever tokenize was given a string, it returned the maximal
\* runs of the characters a-z and 0-9 of the lower-cased string, left to
\* right; so every token is non-empty and made of those characters only.
C15_MaximalAlnumRuns ==
    (tk_out # None /\ tk_text.t = "str" /\ tk_out[1].module # "ingest.tokenize") =>
        /\ tk_out[1].error = None
        /\ tk_out[1].tokens =
               MaximalRuns([i \in 1..Len(tk_text.v) |-> LowerChar(tk_text.v[i])], AsciiAlnum)
        /\ \A i \in 1..Len(tk_out[1].tokens) :
               /\ tk_out[1].tokens[i] # <<>>
               /\ Range(tk_out[1].tokens[i]) \subseteq AsciiAlnum

\* --------------------------------------------- topk_overlap: state machine
InitTopk ==
    /\ tko_p \in OrderedCounters
    /\ tko_q \in OrderedCounters
    /\ tko_k \in 0..MaxK
    /\ tko_out = None
    /\ JsIdle
    /\ TaIdle
    /\ ZipfIdle
    /\ RdIdle
    /\ CmpIdle
    /\ NgIdle
    /\ TkIdle
    /\ FoIdle
    /\ EntIdle
    /\ MtIdle
    /\ PrIdle
    /\ RsIdle
    /\ PlIdle
    /\ AgIdle

\* analyze_corpus(): p, _ = normalize_counter(...), then topk_overlap.
CallTopkOverlap ==
    /\ tko_out = None
    /\ LET r == topk_overlap(normalize_items(tko_p), normalize_items(tko_q), tko_k)
       IN \E examples \in example_sets(r.inter) :
              tko_out' = Some([overlap |-> r.overlap, examples |-> examples])
    /\ UNCHANGED <<tko_p, tko_q, tko_k, not_tko>>

NextTopk == CallTopkOverlap

SpecTopk == InitTopk /\ [][NextTopk]_vars

\* The symbols of a table that fewer than k symbols outrank; a symbol is
\* outranked by every symbol of greater count and by every symbol of equal
\* count seen before it.
TopK(c, k) ==
    {c[i][1] : i \in {i \in 1..Len(c) :
        Cardinality({j \in 1..Len(c) :
            c[j][2] > c[i][2] \/ (c[j][2] = c[i][2] /\ j < i)}) < k}}

\* C17: for k > 0 topk_overlap returned |top_k(p) /\ top_k(q)| / k, a value
\* in [0, 1], and only examples that are in both top-k sets; for
\* {a: 0.5, b: 0.5} against {a: 1.0} the top-1 overlap is 1.
C17_TopkOverlap ==
    (tko_out # None /\ tko_k > 0) =>
        LET both == TopK(tko_p, tko_k) \cap TopK(tko_q, tko_k)
        IN /\ tko_out[1].overlap[1] * tko_k = Cardinality(both) * tko_out[1].overlap[2]
           /\ 0 <= tko_out[1].overlap[1]
           /\ tko_out[1].overlap[1] <= tko_out[1].overlap[2]
           /\ tko_out[1].examples \subseteq both
           /\ ((tko_p = <<<<"a", 1>>, <<"b", 1>>>> /\ tko_q = <<<<"a", 1>>>> /\ tko_k = 1)
                  => tko_out[1].overlap = <<1, 1>>)

\* topk_overlap has returned for k = 1 on a first table with a tie for the
\* top rank and a second table whose top symbol is the first-seen one.
C17_Witness ==
    /\ tko_out # None
    /\ tko_k = 1
    /\ tko_p = <<<<"a", 1>>, <<"b", 1>>>>
    /\ tko_q = <<<<"a", 1>>>>
    /\ tko_out[1].examples = {"a"}

\* ---------------------------------------------- folio order: state machine
InitFolioOrder ==
    /\ \E a \in FolioIds, b \in OtherFolioIds :
           /\ a # b
           /\ fo_folios \in {<<a, b>>, <<b, a>>}
    /\ fo_out = None
    /\ JsIdle
    /\ TaIdle
    /\ ZipfIdle
    /\ RdIdle
    /\ CmpIdle
    /\ NgIdle
    /\ TkIdle
    /\ TkoIdle
    /\ EntIdle
    /\ MtIdle
    /\ PrIdle
    /\ RsIdle
    /\ PlIdle
    /\ AgIdle

\* compute_folio_statistics: the sorted loop over the unique folios.
SortFolios ==
    /\ fo_out = None
    /\ fo_out' = Some(sorted_folio_orders(fo_folios))
    /\ UNCHANGED <<fo_folios, not_fo>>

NextFolioOrder == SortFolios

SpecFolioOrder == InitFolioOrder /\ [][NextFolioOrder]_vars

\* The identifier is digits followed by r or v and nothing else.
FolioForm(id) ==
    /\ Len(id) >= 2
    /\ \A i \in 1..(Len(id) - 1) : id[i] \in Digits
    /\ id[Len(id)] \in {"r", "v"}

\* The identifier begins with digits followed by r or v.
FolioPrefixForm(id) == \E n \in 2..Len(id) : FolioForm(SubSeq(id, 1, n))

\* Number and side of an identifier that begins with the form.
FolioPrefix(id) == SubSeq(id, 1, CHOOSE n \in 2..Len(id) : FolioForm(SubSeq(id, 1, n)))

FolioNumber(id) == IntOf(SubSeq(FolioPrefix(id), 1, Len(FolioPrefix(id)) - 1))

FolioSide(id) == FolioPrefix(id)[Len(FolioPrefix(id))]

\* C18 as stated: an identifier that is an integer followed by r or v has
\* order 2 * number + (0 for r, 1 for v); every other identifier has order
\* 0 and side r, and is never placed behind an identifier whose number is
\* at least 1.
C18_FolioOrderExactForm ==
    fo_out # None =>
        \A i \in 1..Len(fo_out[1]) :
            LET e == fo_out[1][i]
            IN IF FolioForm(e.folio)
               THEN /\ e.order = 2 * FolioNumber(e.folio) + (IF FolioSide(e.folio) = "r" THEN 0 ELSE 1)
                    /\ e.side = FolioSide(e.folio)
               ELSE /\ e.order = 0
                    /\ e.side = "r"
                    /\ \A j \in 1..(i - 1) :
                           ~(FolioForm(fo_out[1][j].folio) /\ FolioNumber(fo_out[1][j].folio) >= 1)

\* C18 amended: an identifier that begins with an integer followed by r or
\* v has order 2 * number + (0 for r, 1 for v), so that n r comes before
\* n v and n v before (n+1) r; every other identifier has order 0 and side
\* r, and is never placed behind an identifier whose number is at least 1.
C18_FolioOrderPrefixForm ==
    fo_out # None =>
        /\ {fo_out[1][i].folio : i \in 1..Len(fo_out[1])} = Range(fo_folios)
        /\ \A i \in 1..Len(fo_out[1]) :
            LET e == fo_out[1][i]
            IN IF FolioPrefixForm(e.folio)
               THEN /\ e.order = 2 * FolioNumber(e.folio) + (IF FolioSide(e.folio) = "r" THEN 0 ELSE 1)
                    /\ e.side = FolioSide(e.folio)
                    /\ \A j \in 1..(i - 1) :
                           LET f == fo_out[1][j]
                           IN FolioPrefixForm(f.folio) =>
                                  /\ ~(FolioNumber(f.folio) = FolioNumber(e.folio)
                                          /\ f.side = "v" /\ e.side = "r")
                                  /\ ~(FolioNumber(f.folio) = FolioNumber(e.folio) + 1
                                          /\ f.side = "r" /\ e.side = "v")
               ELSE /\ e.order = 0
                    /\ e.side = "r"
                    /\ \A j \in 1..(i - 1) :
                           ~(FolioPrefixForm(fo_out[1][j].folio)
                                /\ FolioNumber(fo_out[1][j].folio) >= 1)

\* The folios 1v and 1 r x, in this order in the file, have been sorted:
\* the identifier with a trailing character got the order of 1r and was
\* placed first.
C18_Witness ==
    /\ fo_out # None
    /\ fo_folios = <<<<"1", "v">>, <<"1", "r", "x">>>>
    /\ fo_out[1][1].folio = <<"1", "r", "x">>
    /\ fo_out[1][1].order = 2

\* ------------------------------------------ shannon_entropy: state machine
InitEntropy ==
    /\ ent_counter \in ZipfCounters
    /\ ent_out = None
    /\ JsIdle
    /\ TaIdle
    /\ ZipfIdle
    /\ RdIdle
    /\ CmpIdle
    /\ NgIdle
    /\ TkIdle
    /\ TkoIdle
    /\ FoIdle
    /\ MtIdle
    /\ PrIdle
    /\ RsIdle
    /\ PlIdle
    /\ AgIdle

\* report_metrics.shannon_entropy(counter)
ShannonEntropyReportMetrics ==
    /\ ent_out = None
    /\ ent_out' = Some([module |-> "report_metrics", entropy |-> shannon_entropy(ent_counter)])
    /\ UNCHANGED <<ent_counter, not_ent>>

\* stats.shannon_entropy(counter), the same lines as in report_metrics
ShannonEntropyStats ==
    /\ ent_out = None
    /\ ent_out' = Some([module |-> "stats", entropy |-> shannon_entropy(ent_counter)])
    /\ UNCHANGED <<ent_counter, not_ent>>

NextEntropy == ShannonEntropyReportMetrics \/ ShannonEntropyStats

SpecEntropy == InitEntropy /\ [][NextEntropy]_vars

\* C20: whichever shannon_entropy was called, its result is >= 0; for a
\* table of at least one key it is 0 exactly when the table has one
\* distinct key, and for the empty table it is 0.
C20_EntropyNonNegative ==
    ent_out # None =>
        /\ ent_out[1].entropy[1] >= 0
        /\ ent_out[1].entropy[2] > 0
        /\ (DOMAIN ent_counter # {} =>
               (ent_out[1].entropy[1] = 0 <=> Cardinality(DOMAIN ent_counter) = 1))
        /\ (DOMAIN ent_counter = {} => ent_out[1].entropy = RZero)

\* shannon_entropy has returned 0 for a table of one key counted more than
\* once.
C20_Witness ==
    /\ ent_out # None
    /\ Cardinality(DOMAIN ent_counter) = 1
    /\ \E k \in DOMAIN ent_counter : ent_counter[k] >= 2
    /\ ent_out[1].entropy = RZero

\* -------------------------------------------------- metrics: state machine
InitMetrics ==
    /\ mt_file \in MtFiles
    /\ mt_out = None
    /\ JsIdle
    /\ TaIdle
    /\ ZipfIdle
    /\ RdIdle
    /\ CmpIdle
    /\ NgIdle
    /\ TkIdle
    /\ TkoIdle
    /\ FoIdle
    /\ EntIdle
    /\ PrIdle
    /\ RsIdle
    /\ PlIdle
    /\ AgIdle

\* report_metrics.main: compute_metrics(read_lines_from_jsonl(input))
ReportMetrics ==
    /\ mt_out = None
    /\ mt_out' = Some([module |-> "report_metrics"]
                        @@ compute_metrics(Strings(read_lines_from_jsonl(Some(mt_file)).lines)))
    /\ UNCHANGED <<mt_file, not_mt>>

\* stats.analyze(input)
StatsMetrics ==
    /\ mt_out = None
    /\ mt_out' = Some([module |-> "stats"] @@ stats_analyze(Some(mt_file)))
    /\ UNCHANGED <<mt_file, not_mt>>

\* compare(): read_voynich_lines(voynich_path), then v_uni and v_bi
CompareMetrics ==
    /\ mt_out = None
    /\ mt_out' = Some([module |-> "compare_corpora"]
                        @@ compare_voynich_tables(Strings(read_voynich_lines(Some(mt_file)).lines)))
    /\ UNCHANGED <<mt_file, not_mt>>

NextMetrics == ReportMetrics \/ StatsMetrics \/ CompareMetrics

SpecMetrics == InitMetrics /\ [][NextMetrics]_vars

\* The token stream of the file: the tokens of its texts, in order.
MtTokens == Flatten([i \in 1..Len(mt_file) |-> tokenize(mt_file[i].text.v)])

MtDaiin == <<"d", "a", "i", "i", "n">>

MtQokedy == <<"q", "o", "k", "e", "d", "y">>

\* C21: the hapax ratio compute_metrics returned is the number of symbols
\* counted once over the number of distinct symbols, 0 for no symbol, and
\* within [0, 1]; for the one text "daiin qokedy daiin" the table is
\* {daiin: 2, qokedy: 1} and the ratio 1/2.
C21_HapaxRatio ==
    (mt_out # None /\ mt_out[1].module = "report_metrics") =>
        LET vocab == Range(MtTokens)
            once == {t \in vocab : Count(MtTokens, t) = 1}
            h == mt_out[1].hapax_ratio
        IN /\ h[1] * Cardinality(vocab) = Cardinality(once) * h[2]
           /\ h[2] > 0
           /\ 0 <= h[1]
           /\ h[1] <= h[2]
           /\ (vocab = {} => h = RZero)
           /\ (MtTokens = <<MtDaiin, MtQokedy, MtDaiin>> =>
                  /\ mt_out[1].uni = (MtDaiin :> 2) @@ (MtQokedy :> 1)
                  /\ h = <<1, 2>>)

\* compute_metrics has run on the one text "daiin qokedy daiin".
C21_Witness ==
    /\ mt_out # None
    /\ mt_out[1].module = "report_metrics"
    /\ Len(mt_file) = 1
    /\ MtTokens = <<MtDaiin, MtQokedy, MtDaiin>>
    /\ mt_out[1].hapax_ratio = <<1, 2>>

\* The unigram table the module that ran built.
MtUnigrams == IF mt_out[1].module = "stats" THEN mt_out[1].unigrams ELSE mt_out[1].uni

\* C22: the unigram table compute_metrics, stats.analyze or compare() built
\* holds only counts >= 1 and its counts sum to the number of tokens of the
\* token stream; the token total reported (and the unigram count of
\* stats.analyze) is that number.
C22_UnigramTableSums ==
    mt_out # None =>
        /\ \A k \in DOMAIN MtUnigrams : MtUnigrams[k] >= 1
        /\ DOMAIN MtUnigrams = Range(MtTokens)
        /\ Total(MtUnigrams) = Len(MtTokens)
        /\ (mt_out[1].module = "report_metrics" => mt_out[1].tokens = Len(MtTokens))
        /\ (mt_out[1].module = "stats" =>
               /\ mt_out[1].tokens = Len(MtTokens)
               /\ mt_out[1].unigram_count = mt_out[1].tokens)

\* compute_metrics has run on two lines that share a token.
C22_Witness ==
    /\ mt_out # None
    /\ mt_out[1].module = "report_metrics"
    /\ Len(mt_file) = 2
    /\ tokenize(mt_file[1].text.v) # <<>>
    /\ \E k \in DOMAIN mt_out[1].uni : mt_out[1].uni[k] >= 2
    /\ mt_out[1].tokens > Len(tokenize(mt_file[2].text.v))

\* The bigram table the module that ran built, its keys written as the two
\* tokens joined by a space (stats.analyze keeps them as pairs).
MtBigrams ==
    IF mt_out[1].module = "stats"
    THEN [s \in {JoinSpace(k) : k \in DOMAIN mt_out[1].bigrams} |->
            mt_out[1].bigrams[CHOOSE k \in DOMAIN mt_out[1].bigrams : JoinSpace(k) = s]]
    ELSE mt_out[1].bi

\* The pairs of tokens adjacent within one line of text.
MtPairsOfLine(text) ==
    LET toks == tokenize(text)
    IN [j \in 1..(Len(toks) - 1) |-> JoinSpace(<<toks[j], toks[j + 1]>>)]

\* The pairs of tokens adjacent within one line, over the lines of the file.
MtLinePairs == Flatten([i \in 1..Len(mt_file) |-> MtPairsOfLine(mt_file[i].text.v)])

\* C30: for the same records stats.analyze, compute_metrics and compare()
\* build the same bigram table, the one that counts each pair of tokens
\* adjacent within one line and no pair made of the last token of a line
\* and the first token of the next.
C30_BigramsWithinLines ==
    mt_out # None => MtBigrams = CounterOf(MtLinePairs)

\* ------------------------------------ probability distribution: state machine
InitProb ==
    /\ pr_counter \in ZipfCounters
    /\ pr_out = None
    /\ JsIdle
    /\ TaIdle
    /\ ZipfIdle
    /\ RdIdle
    /\ CmpIdle
    /\ NgIdle
    /\ TkIdle
    /\ TkoIdle
    /\ FoIdle
    /\ EntIdle
    /\ MtIdle
    /\ RsIdle
    /\ PlIdle
    /\ AgIdle

\* compare_corpora.counter_to_prob(counter)
CallCounterToProb ==
    /\ pr_out = None
    /\ pr_out' = Some([function |-> "counter_to_prob", prob |-> counter_to_prob(pr_counter)])
    /\ UNCHANGED <<pr_counter, not_pr>>

\* compare_languages.normalize_counter(c), the distribution of the pair
CallNormalizeCounter ==
    /\ pr_out = None
    /\ pr_out' = Some([function |-> "normalize_counter",
                       prob |-> normalize_counter(pr_counter)[1]])
    /\ UNCHANGED <<pr_counter, not_pr>>

NextProb == CallCounterToProb \/ CallNormalizeCounter

SpecProb == InitProb /\ [][NextProb]_vars

\* C23: the distribution counter_to_prob or normalize_counter derived from
\* a non-empty table gives each key of the table count / total, a value in
\* (0, 1], and the values sum to 1; the empty table gives the empty
\* distribution.
C23_DistributionSumsToOne ==
    pr_out # None =>
        LET p == pr_out[1].prob
        IN /\ DOMAIN p = DOMAIN pr_counter
           /\ \A k \in DOMAIN p :
                  /\ p[k][1] * Total(pr_counter) = pr_counter[k] * p[k][2]
                  /\ 0 < p[k][1]
                  /\ p[k][1] <= p[k][2]
           /\ (DOMAIN pr_counter # {} => SumOver(p, DOMAIN p) = <<1, 1>>)
           /\ (DOMAIN pr_counter = {} => p = EmptyDict)

\* counter_to_prob has returned for a table of several keys with unequal
\* counts.
C23_Witness ==
    /\ pr_out # None
    /\ pr_out[1].function = "counter_to_prob"
    /\ Cardinality(DOMAIN pr_counter) >= 2
    /\ \E k, l \in DOMAIN pr_counter : pr_counter[k] < pr_counter[l]

\* ------------------------------------------- temporal analyzer: restarts
\* Most folios in a token file of the restart machine.
RsMaxFolios == 3

\* Token lists of one folio in the restart machine.
RsTokenLists == {<<"a">>, <<"b", "a">>}

\* Token files of the restart machine: up to RsMaxFolios folios in
\* manuscript order.
RsFiles ==
    UNION {{FileRows([i \in 1..n |-> i], toks) : toks \in [1..n -> RsTokenLists]} :
             n \in 0..RsMaxFolios}

\* Window sizes asked of detect_vocabulary_shifts in the restart machine.
RsWindowSizes == 1..MaxWindow

\* Tokens asked of analyze_token_evolution: one that occurs, one that never does.
RsTokens == {"a", "c"}

\* analyze_token_evolution, lines 126-145, on computed folio statistics.
analyze_token_evolution(stats, token) ==
    LET evolution == [i \in 1..Len(stats) |->
                        [folio |-> stats[i].folio,
                         order |-> stats[i].order,
                         frequency |-> IF stats[i].tokens # <<>>
                                       THEN RReduce(<<Count(stats[i].tokens, token),
                                                      Len(stats[i].tokens)>>)
                                       ELSE RZero,
                         absolute_count |-> Count(stats[i].tokens, token)]]
        present == SelectSeq(evolution, LAMBDA e : e.absolute_count > 0)
    IN [token |-> token,
        first_appearance |-> IF present # <<>> THEN Some(present[1].folio) ELSE None,
        last_appearance |-> IF present # <<>> THEN Some(present[Len(present)].folio) ELSE None,
        total_occurrences |-> IntSum([i \in 1..Len(evolution) |-> evolution[i].absolute_count],
                                    1..Len(evolution)),
        appears_in_folios |-> Len(present),
        evolution |-> evolution]

\* run_analyze_token_evolution with the rows that lack the token removed from
\* self.folio_stats.
run_analyze_token_evolution_filters_in_place(file, tdf, fstats, token) ==
    LET computed == IF fstats = None THEN run_compute_folio_statistics(file, tdf)
                    ELSE [tokens_df |-> tdf, folio_stats |-> fstats, error |-> None]
    IN IF computed.error # None
       THEN [tokens_df |-> computed.tokens_df, folio_stats |-> computed.folio_stats,
             evolution |-> None, error |-> computed.error]
       ELSE [tokens_df |-> computed.tokens_df,
             folio_stats |-> Some(SelectSeq(computed.folio_stats[1],
                                            LAMBDA row : Count(row.tokens, token) > 0)),
             evolution |-> Some(analyze_token_evolution(computed.folio_stats[1], token)),
             error |-> None]

\* "if self.folio_stats is None: self.compute_folio_statistics()" followed
\* by the body of analyze_token_evolution.
run_analyze_token_evolution(file, tdf, fstats, token) ==
    LET computed == IF fstats = None THEN run_compute_folio_statistics(file, tdf)
                    ELSE [tokens_df |-> tdf, folio_stats |-> fstats, error |-> None]
    IN IF computed.error # None
       THEN [tokens_df |-> computed.tokens_df, folio_stats |-> computed.folio_stats,
             evolution |-> None, error |-> computed.error]
       ELSE [tokens_df |-> computed.tokens_df, folio_stats |-> computed.folio_stats,
             evolution |-> Some(analyze_token_evolution(computed.folio_stats[1], token)),
             error |-> None]

RECURSIVE idxmax_jsd(_, _)
\* shifts['jsd_distance'].idxmax() over the rows 1..n: the first row that
\* holds the largest value.
idxmax_jsd(shifts, n) ==
    IF n = 1 THEN 1
    ELSE LET best == idxmax_jsd(shifts, n - 1)
         IN IF RLess(shifts[best].jsd_distance, shifts[n].jsd_distance) THEN n ELSE best

\* generate_timeline_report: the quantities the report text is written from.
\* It reads self.folio_stats, calls detect_vocabulary_shifts(window_size=1)
\* and analyze_token_evolution(top_5_tokens[0][0]).
run_generate_timeline_report(file, tdf, fstats) ==
    LET computed == IF fstats = None THEN run_compute_folio_statistics(file, tdf)
                    ELSE [tokens_df |-> tdf, folio_stats |-> fstats, error |-> None]
    IN IF computed.error # None
       THEN [tokens_df |-> computed.tokens_df, folio_stats |-> computed.folio_stats,
             report |-> None, error |-> computed.error]
       ELSE LET stats == computed.folio_stats[1]
                all_tokens == Flatten([i \in 1..Len(stats) |-> stats[i].tokens])
                shifts == detect_vocabulary_shifts(stats, 1)
                top == analyze_token_evolution(stats, MostCommon(all_tokens))
            IN [tokens_df |-> computed.tokens_df, folio_stats |-> computed.folio_stats,
                report |-> Some([total_folios |-> Len(stats),
                                 total_tokens |-> Len(all_tokens),
                                 unique_tokens |-> Cardinality(Range(all_tokens)),
                                 max_shift |-> IF shifts # <<>>
                                               THEN Some(shifts[idxmax_jsd(shifts, Len(shifts))])
                                               ELSE None,
                                 top_token |-> top.token,
                                 first_appearance |-> top.first_appearance,
                                 last_appearance |-> top.last_appearance,
                                 total_occurrences |-> top.total_occurrences,
                                 appears_in_folios |-> top.appears_in_folios]),
                error |-> None]

InitRestart ==
    /\ rs_file \in RsFiles
    /\ rs_tokens_df = None
    /\ rs_folio_stats = None
    /\ rs_returned = None
    /\ rs_first = None
    /\ rs_between = {}
    /\ rs_repeat = None
    /\ rs_error = None
    /\ JsIdle
    /\ TaIdle
    /\ ZipfIdle
    /\ RdIdle
    /\ CmpIdle
    /\ NgIdle
    /\ TkIdle
    /\ TkoIdle
    /\ FoIdle
    /\ EntIdle
    /\ MtIdle
    /\ PrIdle
    /\ PlIdle
    /\ AgIdle

\* The calls made after the first detect_vocabulary_shifts call, until its
\* window size is asked again.
RsNoteCall(method) ==
    rs_between' = IF rs_first # None /\ rs_repeat = None
                  THEN rs_between \cup {method} ELSE rs_between

\* analyzer.detect_vocabulary_shifts(window_size)
RestartDetectVocabularyShifts ==
    /\ rs_error = None
    /\ \E window_size \in RsWindowSizes :
         LET r == run_detect_vocabulary_shifts(rs_file, rs_tokens_df, rs_folio_stats,
                                               window_size)
         IN /\ rs_tokens_df' = r.tokens_df
            /\ rs_folio_stats' = r.folio_stats
            /\ rs_returned' = IF r.error = None
                              THEN Some([method |-> "detect_vocabulary_shifts",
                                         window_size |-> window_size,
                                         value |-> r.shifts[1]])
                              ELSE None
            /\ rs_error' = r.error
            /\ IF r.error # None
               THEN UNCHANGED <<rs_first, rs_between, rs_repeat>>
               ELSE IF rs_first = None
               THEN /\ rs_first' = Some([window_size |-> window_size,
                                         shifts |-> r.shifts[1],
                                         tokens_df |-> r.tokens_df,
                                         folio_stats |-> r.folio_stats])
                    /\ UNCHANGED <<rs_between, rs_repeat>>
               ELSE IF rs_first[1].window_size = window_size
               THEN /\ rs_repeat' = r.shifts
                    /\ UNCHANGED <<rs_first, rs_between>>
               ELSE /\ RsNoteCall("detect_vocabulary_shifts")
                    /\ UNCHANGED <<rs_first, rs_repeat>>
    /\ UNCHANGED <<rs_file, not_rs>>

\* analyzer.analyze_token_evolution(token)
RestartAnalyzeTokenEvolution ==
    /\ rs_error = None
    /\ \E token \in RsTokens :
         LET r == run_analyze_token_evolution(rs_file, rs_tokens_df, rs_folio_stats, token)
         IN /\ rs_tokens_df' = r.tokens_df
            /\ rs_folio_stats' = r.folio_stats
            /\ rs_returned' = IF r.error = None
                              THEN Some([method |-> "analyze_token_evolution",
                                         value |-> r.evolution[1]])
                              ELSE None
            /\ rs_error' = r.error
    /\ RsNoteCall("analyze_token_evolution")
    /\ UNCHANGED <<rs_file, rs_first, rs_repeat, not_rs>>

\* analyzer.generate_timeline_report()
RestartGenerateTimelineReport ==
    /\ rs_error = None
    /\ LET r == run_generate_timeline_report(rs_file, rs_tokens_df, rs_folio_stats)
       IN /\ rs_tokens_df' = r.tokens_df
          /\ rs_folio_stats' = r.folio_stats
          /\ rs_returned' = IF r.error = None
                            THEN Some([method |-> "generate_timeline_report",
                                       value |-> r.report[1]])
                            ELSE None
          /\ rs_error' = r.error
    /\ RsNoteCall("generate_timeline_report")
    /\ UNCHANGED <<rs_file, rs_first, rs_repeat, not_rs>>

NextRestart ==
    \/ RestartDetectVocabularyShifts
    \/ RestartAnalyzeTokenEvolution
    \/ RestartGenerateTimelineReport

SpecRestart == InitRestart /\ [][NextRestart]_vars

\* C25: once detect_vocabulary_shifts(w) has returned, every later call with
\* the same w returns the identical sequence of records, whatever calls of
\* analyze_token_evolution, of detect_vocabulary_shifts with another size or
\* of generate_timeline_report were made in between, and the loaded token
\* data and the per-folio statistics stay as that first call left them.
C25_Restartable ==
    rs_first # None =>
        /\ rs_tokens_df = rs_first[1].tokens_df
        /\ rs_folio_stats = rs_first[1].folio_stats
        /\ rs_tokens_df = Some(rs_file)
        /\ rs_repeat # None => rs_repeat[1] = rs_first[1].shifts

\* C25 witness: a window size that gave two records was asked again after
\* calls of all three other kinds, and the repeated call has just returned.
C25_Witness ==
    /\ rs_first # None
    /\ rs_repeat # None
    /\ Len(rs_first[1].shifts) >= 2
    /\ rs_between = {"analyze_token_evolution", "detect_vocabulary_shifts",
                     "generate_timeline_report"}
    /\ rs_returned # None
    /\ rs_returned[1].method = "detect_vocabulary_shifts"
    /\ rs_returned[1].window_size = rs_first[1].window_size

\* ------------------------------------------------------ pipeline: main()
\* The commands of main(), lines 26-42, in program order.
PipelineSteps == <<"ingest", "tokenize", "metrics", "hypotheses", "compare", "aggregate">>

\* Largest exit code a step is drawn to end with.
PlMaxCode == 20

\* Return codes of subprocess.run: the exit code of the child, or the
\* negated number of the signal that killed it.
ReturnCodes == (0..PlMaxCode) \cup {0 - 9, 0 - 15}

\* The exit status of the interpreter after raise SystemExit(code): the low
\* eight bits of the code.
ExitStatus(code) == code % 256

\* run() without the test of the return code.
run_unchecked(returncode) == None

\* run(cmd), lines 16-18, for the return code of the subprocess: the exit
\* status it ends the orchestrator with, or None when it returns.
run(returncode) ==
    IF returncode # 0 THEN Some(ExitStatus(returncode)) ELSE None

InitPipeline ==
    /\ pl_started = <<>>
    /\ pl_codes = <<>>
    /\ pl_status = None
    /\ JsIdle
    /\ TaIdle
    /\ ZipfIdle
    /\ RdIdle
    /\ CmpIdle
    /\ NgIdle
    /\ TkIdle
    /\ TkoIdle
    /\ FoIdle
    /\ EntIdle
    /\ MtIdle
    /\ PrIdle
    /\ RsIdle
    /\ AgIdle

\* run(cmd), line 16: subprocess.run starts the next command of main().
StartStep ==
    /\ pl_status = None
    /\ Len(pl_codes) = Len(pl_started)
    /\ Len(pl_started) < Len(PipelineSteps)
    /\ pl_started' = Append(pl_started, PipelineSteps[Len(pl_started) + 1])
    /\ UNCHANGED <<pl_codes, pl_status, not_pl>>

\* run(cmd), lines 16-18: the subprocess ends and run() returns or raises.
StepEnds ==
    /\ pl_status = None
    /\ Len(pl_codes) < Len(pl_started)
    /\ \E returncode \in ReturnCodes :
         /\ pl_codes' = Append(pl_codes, returncode)
         /\ pl_status' = run(returncode)
    /\ UNCHANGED <<pl_started, not_pl>>

\* main(), lines 44-47: every command returned, main() returns.
PipelineFinishes ==
    /\ pl_status = None
    /\ Len(pl_codes) = Len(PipelineSteps)
    /\ pl_status' = Some(0)
    /\ UNCHANGED <<pl_started, pl_codes, not_pl>>

NextPipeline == StartStep \/ StepEnds \/ PipelineFinishes

SpecPipeline == InitPipeline /\ [][NextPipeline]_vars

\* C26: the steps start in the order ingest, tokenize, metrics, hypotheses,
\* compare, aggregate; a step has started only if every earlier step exited
\* with code 0; and a step that exits with a non-zero code is the last one
\* started, the pipeline ending with that exit code.
C26_PipelineOrder ==
    /\ Len(pl_started) <= Len(PipelineSteps)
    /\ pl_started = SubSeq(PipelineSteps, 1, Len(pl_started))
    /\ Len(pl_codes) <= Len(pl_started)
    /\ \A i \in 1..Len(pl_started) :
         \A j \in 1..(i - 1) : j <= Len(pl_codes) /\ pl_codes[j] = 0
    /\ \A i \in 1..Len(pl_codes) :
         pl_codes[i] > 0 =>
             /\ Len(pl_started) = i
             /\ pl_status = Some(pl_codes[i])

\* C26 witness: ingest and tokenize exited with 0, metrics exited with 2 and
\* the pipeline has ended with status 2.
C26_Witness ==
    /\ pl_started = <<"ingest", "tokenize", "metrics">>
    /\ pl_codes = <<0, 0, 2>>
    /\ pl_status = Some(2)

\* ------------------------------------------ hypothesis aggregation
\* Most lines in a source file drawn as an input.
AgMaxLines == 2

OUT_JSONL == "hypotheses_aggregated.jsonl"

\* excluded, line 49.
AgExcluded == {"hypotheses_aggregated.jsonl", "hypotheses_summary.jsonl"}

\* Lines of a source file: a blank line, a JSON object with and without an
\* id, and a line that is not JSON.
AgLines ==
    {[kind |-> "blank", id |-> None, prompt |-> "", source |-> ""],
     [kind |-> "object", id |-> Some(<<"id", 7>>), prompt |-> "p", source |-> ""],
     [kind |-> "object", id |-> None, prompt |-> "q", source |-> ""],
     [kind |-> "raw", id |-> None, prompt |-> "not json", source |-> ""]}

AgContents == SeqsUpTo(AgLines, AgMaxLines)

\* A line an earlier run left in the aggregated file.
AgStale == <<[kind |-> "object", id |-> Some(<<"gen", 1>>), prompt |-> "old", source |-> "prompts.jsonl"]>>

\* Names of the source files drawn as inputs.
AgSourceNames == {"prompts.jsonl", "rule_based.jsonl"}

\* The directories drawn as inputs: missing, or holding any of the two
\* source files and possibly an aggregated file of an earlier run.
AgDirs ==
    {[exists |-> FALSE, files |-> <<>>]} \cup
    {[exists |-> TRUE, files |-> src @@ old] :
       src \in UNION {[S -> AgContents] : S \in SUBSET AgSourceNames},
       old \in {<<>>, OUT_JSONL :> AgStale}}

\* list_jsonl_files, lines 45-51: "return []" when the directory is missing;
\* the statements after it are indented into the same if-block and never
\* run, so for an existing directory the function ends without a return
\* statement and gives None.
list_jsonl_files(d) ==
    IF ~d.exists THEN Some(<<>>) ELSE None

\* load_records: the objects of the non-blank lines; a line that is not JSON
\* becomes {'prompt': ln}.
load_records(lines) == SelectSeq(lines, LAMBDA ln : ln.kind # "blank")

\* normalize_record: id or 'gen-<gen_id>', the source file name, the prompt.
normalize_record(obj, source, gen_id) ==
    [kind |-> "object",
     id |-> IF obj.id # None THEN obj.id ELSE Some(<<"gen", gen_id>>),
     prompt |-> obj.prompt,
     source |-> source]

\* aggregate, lines 138-142: the records of one file, gen_id counting on.
normalize_all(objs, source, gen_id) ==
    [i \in 1..Len(objs) |-> normalize_record(objs[i], source, gen_id + i - 1)]

RECURSIVE aggregate_files(_, _, _)
\* aggregate, lines 135-143: the records of the files, in order.
aggregate_files(d, files, gen_id) ==
    IF files = <<>> THEN <<>>
    ELSE LET objs == load_records(d.files[files[1]])
         IN normalize_all(objs, files[1], gen_id)
              \o aggregate_files(d, Tail(files), gen_id + Len(objs))

\* aggregate(): the directory it leaves and what it wrote. "if not files"
\* holds for [] and for None.
aggregate(d) ==
    LET files == list_jsonl_files(d)
    IN IF files = None \/ files = Some(<<>>)
       THEN [dir |-> [exists |-> TRUE,
                      files |-> [n \in (DOMAIN d.files) \cup {OUT_JSONL} |->
                                   IF n = OUT_JSONL THEN <<>> ELSE d.files[n]]],
             out |-> [returned |-> 0, empty_artifacts |-> TRUE, total_records |-> 0]]
       ELSE LET aggregated == aggregate_files(d, files[1], 1)
            IN [dir |-> [exists |-> TRUE,
                         files |-> [n \in (DOMAIN d.files) \cup {OUT_JSONL} |->
                                      IF n = OUT_JSONL THEN aggregated ELSE d.files[n]]],
                out |-> [returned |-> 0, empty_artifacts |-> FALSE,
                         total_records |-> Len(aggregated)]]

InitAggregate ==
    /\ ag_dir \in AgDirs
    /\ ag_out = None
    /\ JsIdle
    /\ TaIdle
    /\ ZipfIdle
    /\ RdIdle
    /\ CmpIdle
    /\ NgIdle
    /\ TkIdle
    /\ TkoIdle
    /\ FoIdle
    /\ EntIdle
    /\ MtIdle
    /\ PrIdle
    /\ RsIdle
    /\ PlIdle

\* aggregate()
CallAggregate ==
    /\ ag_dir' = aggregate(ag_dir).dir
    /\ ag_out' = Some([entry |-> "aggregate"] @@ aggregate(ag_dir).out)
    /\ UNCHANGED not_ag

\* main(): HYP_DIR.mkdir(parents=True, exist_ok=True); return aggregate()
CallAggregateMain ==
    /\ LET made == [exists |-> TRUE, files |-> ag_dir.files]
       IN /\ ag_dir' = aggregate(made).dir
          /\ ag_out' = Some([entry |-> "main"] @@ aggregate(made).out)
    /\ UNCHANGED not_ag

NextAggregate == CallAggregate \/ CallAggregateMain

SpecAggregate == InitAggregate /\ [][NextAggregate]_vars

\* The source files of the directory: its .jsonl files other than the
\* outputs.
AgSources == (DOMAIN ag_dir.files) \ AgExcluded

\* The non-blank lines of the source files.
AgNonBlankLines ==
    IntSum([n \in AgSources |-> Len(load_records(ag_dir.files[n]))], AgSources)

\* C27: when the directory holds source .jsonl files, aggregate() writes one
\* record per non-blank line of those files (the aggregated file of an
\* earlier run is not read), and does not write the empty artifacts.
C27_OneRecordPerLine ==
    (ag_out # None /\ AgSources # {}) =>
        /\ ~ag_out[1].empty_artifacts
        /\ ag_out[1].total_records = AgNonBlankLines
        /\ Len(ag_dir.files[OUT_JSONL]) = AgNonBlankLines

=============================================================================
